---- MODULE Spec2Model ----
(***************************************************************************)
(* Replicated command application of one replica: the application batch    *)
(* (replicaAppBatch) of pkg/kv/kvserver, its staging of committed raft     *)
(* commands, its atomic commit and the publication of the batch's view to  *)
(* the replica.                                                            *)
(*                                                                         *)
(* Conventions.  A Go pointer (or slice) that may be nil is a set: {} is   *)
(* nil and {v} points to v.  An hlc.Timestamp is a natural number, 0 the   *)
(* empty timestamp.  MVCC stats are a record of two counters, which is     *)
(* enough to tell a componentwise sum from anything else.                  *)
(***************************************************************************)
EXTENDS Integers, Sequences, FiniteSets, TLC

VARIABLES
    raftClosedTimestampAssertionsEnabled, \* the process-wide assertion toggle
    proc,       \* "running" | "failed" (an error was returned) | "dead" (log.Fatalf)
    r,          \* the Replica: r.mu.state and the other fields the batch touches
    sm,         \* replicaStateMachine.stats
    engine,     \* the committed state of the storage engine
    b,          \* the replicaAppBatch
    call,       \* the call that has just returned to the outer loop, or "idle"
    err,        \* the error that call returned, "none" when it returned nil
    cmdIn,      \* the command as it was handed to Stage
    cmd,        \* the same command object after Stage worked on it
    prev,       \* the batch as it was when the call started
    prevR,      \* the replica as it was when the call started
    fx,         \* what the call did outside the batch: commits, notifications
    peer,       \* a second replica of the range, on the other store
    envIn,      \* what the call of Stage met besides the command (see Env)
    log,        \* the committed raft log from which entries are applied again
    disk,       \* what a crash may leave of the engine, and the crashes so far
    mb,         \* the ephemeralReplicaAppBatch, and the command its Stage returned
    closes,     \* how often the batch's storage batch was closed, and Close called
    rdc,        \* the RangeDescriptorCache, its callers and its descriptor database
    reader      \* a read of the range that runs beside the application of commands

vars == <<raftClosedTimestampAssertionsEnabled, proc, r, sm, engine, b,
          call, err, cmdIn, cmd, prev, prevR, fx, peer, envIn, log, disk, mb, closes, rdc,
          reader>>

----------------------------------------------------------------------------
(* Bounds of the model. *)

\* Raft entries staged over one run of the model.
MaxEntries == 2
\* The timestamps a command carries, and the largest of them.
Timestamps == {0, 1, 2}
MaxTS == CHOOSE t \in Timestamps : \A u \in Timestamps : u <= t
Terms == {1, 2}
LeaseSequences == {1, 2}
ThisStore == "s1"
OtherStore == "s2"

Nil == {}
Ptr(v) == {v}
Deref(p) == CHOOSE v \in p : TRUE

IsEmptyTS(ts) == ts = 0

----------------------------------------------------------------------------
(* MVCC stats *)

ZeroStats == [KeyCount |-> 0, ValBytes |-> 0]
SomeDelta == [KeyCount |-> 1, ValBytes |-> 2]
Deltas == {ZeroStats, SomeDelta}

\* enginepb.MVCCStats.Add
MVCCStatsAdd(ms, oms) ==
    [KeyCount |-> ms.KeyCount + oms.KeyCount, ValBytes |-> ms.ValBytes + oms.ValBytes]

\* enginepb.MVCCStats.Subtract
MVCCStatsSubtract(ms, oms) ==
    [KeyCount |-> ms.KeyCount - oms.KeyCount, ValBytes |-> ms.ValBytes - oms.ValBytes]

\* enginepb.MVCCStatsDelta.ToStats and MVCCStatsLegacyRepresentation.ToStatsDelta
ToStats(delta) == delta
ToStatsDelta(deprecatedDelta) == deprecatedDelta

----------------------------------------------------------------------------
(* Commands *)

\* kvserverpb.ReplicatedEvalResult{}
EmptyReplicatedEvalResult ==
    [ WriteTimestamp  |-> 0,
      Delta           |-> ZeroStats,
      DeprecatedDelta |-> Nil,
      ChangeReplicas  |-> Nil,
      AddSSTable      |-> Nil,
      State           |-> Nil,
      Split           |-> Nil,
      Merge           |-> Nil,
      RaftLogDelta    |-> 0,
      RaftExpectedFirstIndex |-> 0 ]

\* A replicatedCmd as decoded from a committed raft entry.
NewCmd(index, term, mli, seq, cts, wb, ops, res, local, applies, size) ==
    [ Index                  |-> index,
      Term                   |-> term,
      DataSize               |-> size,
      MaxLeaseIndex          |-> mli,
      ProposerLeaseSequence  |-> seq,
      ClosedTimestamp        |-> cts,
      WriteBatch             |-> wb,
      LogicalOpLog           |-> ops,
      ReplicatedEvalResult   |-> res,
      IsLocal                |-> local,
      AppliesTimestampCache  |-> applies,
      LeaseIndex             |-> 0,
      ForcedErr              |-> "none",
      Rejection              |-> "proposalNoReevaluation",
      splitMergeUnlock       |-> FALSE ]

NoCmd == NewCmd(0, 0, 0, 0, Nil, Nil, Nil, EmptyReplicatedEvalResult, FALSE, FALSE, 0)

----------------------------------------------------------------------------
(* Replica state, batch, engine *)

\* kvserverpb.ReplicaState{}
ZeroReplicaState ==
    [ RaftAppliedIndex     |-> 0,
      RaftAppliedIndexTerm |-> 0,
      LeaseAppliedIndex    |-> 0,
      Stats                |-> ZeroStats,
      RaftClosedTimestamp  |-> 0,
      GCThreshold          |-> 0,
      Lease                |-> [Sequence |-> 0],
      Desc                 |-> {},
      TruncatedState       |-> 0 ]

\* closedTimestampSetterInfo{}
ZeroSetter == [leaseIdx |-> 0, lease |-> 0]

\* replicaAppBatch{}
ZeroBatch ==
    [ r                       |-> Nil,
      batch                   |-> Nil,
      state                   |-> ZeroReplicaState,
      closedTimestampSetter   |-> ZeroSetter,
      changeRemovesReplica    |-> FALSE,
      entries                 |-> 0,
      entryBytes              |-> 0,
      emptyEntries            |-> 0,
      mutations               |-> 0,
      followerStoreWriteBytes |-> [NumEntries |-> 0] ]

\* Keys of the engine that belong to this replica.  The key "old" holds a
\* version of a user key written at OldVersionTS that a version written
\* right above it shadows: garbage collection at a threshold at or above
\* OldVersionTS may remove it, and a read at OldVersionTS needs it.
OldVersionTS == MaxTS
UserKeys == {"a", "sst", "old"}
RangeIDLocalKeys == {"RangeAppliedState", "RaftHardState", "RaftTruncatedState", "RaftLog"}
RangeLocalKeys == {"RangeDescriptor"}
\* Keys of the replica this store holds of the range to the right.
RHSRangeIDLocalKeys == {"rhs.RaftHardState"}
RHSKeys == RHSRangeIDLocalKeys \cup {"rhs.data"}
ReplicaKeys == UserKeys \cup RangeIDLocalKeys \cup RangeLocalKeys
EngineKeys == ReplicaKeys \cup {"RangeTombstone"} \cup RHSKeys \cup {"rhs.RangeTombstone"}

Put(key, val) == [op |-> "put", key |-> key, val |-> val, keys |-> {}]
Clear(keys) == [op |-> "clear", key |-> "", val |-> <<>>, keys |-> keys]

\* The value of the applied-state key for a state view.
RangeAppliedState(index, leaseIndex, term, stats, closed) ==
    << index, leaseIndex, term, stats.KeyCount, stats.ValBytes, closed >>

\* One record of a storage batch applied to the key-value state.
ApplyOp(kv, o) ==
    IF o.op = "put"
    THEN [kv EXCEPT ![o.key] = Ptr(o.val)]
    ELSE [k \in DOMAIN kv |-> IF k \in o.keys THEN Nil ELSE kv[k]]

RECURSIVE ApplyOps(_, _)
ApplyOps(kv, ops) ==
    IF ops = <<>> THEN kv ELSE ApplyOps(ApplyOp(kv, Head(ops)), Tail(ops))

----------------------------------------------------------------------------
(* The rejection predicate *)

\* A slip: a command at the view's own lease-applied index is let through.
shouldApplyCommandAtLeaseIndex(c, state) ==
    IF ~(c.MaxLeaseIndex >= state.LeaseAppliedIndex)
    THEN [c EXCEPT !.LeaseIndex = state.LeaseAppliedIndex,
                   !.ForcedErr  = "LeaseAppliedIndex"]
    ELSE IF c.ProposerLeaseSequence # state.Lease.Sequence
    THEN [c EXCEPT !.LeaseIndex = state.LeaseAppliedIndex,
                   !.ForcedErr  = "NotLeaseHolder"]
    ELSE IF ~(c.ReplicatedEvalResult.WriteTimestamp > state.GCThreshold)
    THEN [c EXCEPT !.LeaseIndex = state.LeaseAppliedIndex,
                   !.ForcedErr  = "BatchTimestampBeforeGCThreshold"]
    ELSE [c EXCEPT !.LeaseIndex = c.MaxLeaseIndex]

\* Replica.shouldApplyCommand: the three rules, in order; the first that fails
\* gives the forced error.  It records the decision on the command: the
\* lease-applied index the command applies at (the view's own for a rejected
\* command), how a local proposer may retry, and the forced error.
shouldApplyCommand(c, state) ==
    IF ~(c.MaxLeaseIndex > state.LeaseAppliedIndex)
    THEN [c EXCEPT !.LeaseIndex = state.LeaseAppliedIndex,
                   !.Rejection  = IF c.IsLocal THEN "proposalIllegalLeaseIndex"
                                               ELSE "proposalNoReevaluation",
                   !.ForcedErr  = "LeaseAppliedIndex"]
    ELSE IF c.ProposerLeaseSequence # state.Lease.Sequence
    THEN [c EXCEPT !.LeaseIndex = state.LeaseAppliedIndex,
                   !.ForcedErr  = "NotLeaseHolder"]
    ELSE IF ~(c.ReplicatedEvalResult.WriteTimestamp > state.GCThreshold)
    THEN [c EXCEPT !.LeaseIndex = state.LeaseAppliedIndex,
                   !.ForcedErr  = "BatchTimestampBeforeGCThreshold"]
    ELSE [c EXCEPT !.LeaseIndex = c.MaxLeaseIndex]

----------------------------------------------------------------------------
(* replicaAppBatch.Stage, step by step.  A frame is the state the method   *)
(* works on: the batch, the replica, the command, and how the method       *)
(* ended: err is the error returned, fatal says log.Fatalf ended the       *)
(* process.                                                                *)

Frame(bb, rr, c) ==
    [b |-> bb, r |-> rr, cmd |-> c, err |-> "none", fatal |-> FALSE, fx |-> <<>>, ingested |-> <<>>]
Halted(f) == f.err # "none" \/ f.fatal
Fail(f, e) == [f EXCEPT !.err = e]
Fatal(f) == [f EXCEPT !.fatal = TRUE]
Did(f, what) == [f EXCEPT !.fx = Append(@, what)]

\* A step of a method runs unless an earlier step returned or ended the process.
Then(f, Step(_)) == IF Halted(f) THEN f ELSE Step(f)
ThenWith(f, Step(_, _), arg) == IF Halted(f) THEN f ELSE Step(f, arg)

AssertionErrors ==
    { "AssertionFailed: non-zero index",
      "AssertionFailed: applied index jumped",
      "AssertionFailed: raft closed timestamp regression in cmd",
      "AssertionFailed: command writing below closed timestamp",
      "AssertionFailed: raft closed timestamp regression" }

\* A slip: only an index that falls behind is refused, a gap is let through.
indexJumpedOnlyBackwards(idx, applied) == idx < applied + 1

\* Stage, the out-of-order test of the second index check.
indexJumped(idx, applied) == idx # applied + 1

\* Stage, the two index checks.
checkIndex(f) ==
    IF f.cmd.Index = 0
    THEN Fail(f, "AssertionFailed: non-zero index")
    ELSE IF indexJumped(f.cmd.Index, f.b.state.RaftAppliedIndex)
    THEN Fail(f, "AssertionFailed: applied index jumped")
    ELSE f

\* A slip: the write batch of a rejected command is left in place.
emptyCommandKeepsWriteBatch(c) ==
    [c EXCEPT !.ReplicatedEvalResult = EmptyReplicatedEvalResult,
              !.LogicalOpLog         = Nil,
              !.ClosedTimestamp      = Nil]

\* Stage, the rejected branch: the command becomes an empty command.
emptyCommand(c) ==
    [c EXCEPT !.ReplicatedEvalResult = EmptyReplicatedEvalResult,
              !.WriteBatch           = Nil,
              !.LogicalOpLog         = Nil,
              !.ClosedTimestamp      = Nil]

\* A slip: a regression by a single tick goes unnoticed.
closedTimestampRegressesByTwo(newClosed, existingClosed) ==
    /\ newClosed # Nil
    /\ ~IsEmptyTS(Deref(newClosed))
    /\ Deref(newClosed) + 1 < existingClosed

\* The test of assertNoCmdClosedTimestampRegression.
closedTimestampRegresses(newClosed, existingClosed) ==
    /\ newClosed # Nil
    /\ ~IsEmptyTS(Deref(newClosed))
    /\ Deref(newClosed) < existingClosed

assertNoCmdClosedTimestampRegression(f) ==
    IF ~raftClosedTimestampAssertionsEnabled THEN f
    ELSE IF closedTimestampRegresses(f.cmd.ClosedTimestamp, f.b.state.RaftClosedTimestamp)
    THEN Did(Fail(f, "AssertionFailed: raft closed timestamp regression in cmd"), "printRaftTail")
    ELSE f

\* A slip: a write at the closed timestamp itself is let through.
writesStrictlyBelowClosedTimestamp(wts, closed) == ~IsEmptyTS(wts) /\ wts < closed

\* The test of assertNoWriteBelowClosedTimestamp.
writesBelowClosedTimestamp(wts, closed) == ~IsEmptyTS(wts) /\ wts <= closed

assertNoWriteBelowClosedTimestamp(f) ==
    IF ~f.cmd.IsLocal \/ ~f.cmd.AppliesTimestampCache THEN f
    ELSE IF ~raftClosedTimestampAssertionsEnabled THEN f
    ELSE IF writesBelowClosedTimestamp(f.cmd.ReplicatedEvalResult.WriteTimestamp,
                                       f.b.state.RaftClosedTimestamp)
    THEN Fail(f, "AssertionFailed: command writing below closed timestamp")
    ELSE f

\* A slip: a command this replica proposed itself is taken as accepted.
checkCommandTrustingLocal(f) ==
    IF f.cmd.IsLocal
    THEN Then(assertNoCmdClosedTimestampRegression(
                  [f EXCEPT !.cmd.LeaseIndex = f.cmd.MaxLeaseIndex]),
              assertNoWriteBelowClosedTimestamp)
    ELSE LET checked == [f EXCEPT !.cmd = shouldApplyCommand(f.cmd, f.b.state)] IN
         IF checked.cmd.ForcedErr # "none"
         THEN [checked EXCEPT !.cmd = emptyCommand(checked.cmd)]
         ELSE Then(assertNoCmdClosedTimestampRegression(checked), assertNoWriteBelowClosedTimestamp)

\* Stage, from the rejection check to the two assertions.
checkCommand(f) ==
    LET checked == [f EXCEPT !.cmd = shouldApplyCommand(f.cmd, f.b.state)] IN
    IF checked.cmd.ForcedErr # "none"
    THEN [checked EXCEPT !.cmd = emptyCommand(checked.cmd)]
    ELSE Then(assertNoCmdClosedTimestampRegression(checked), assertNoWriteBelowClosedTimestamp)

\* A slip: the lock is taken for a merge alone, not for a split.
maybeAcquireMergeLockOnly(f, env) ==
    LET res == f.cmd.ReplicatedEvalResult IN
    IF res.Merge = Nil THEN f
    ELSE IF env.fault = "splitMergeLock"
    THEN Fail(f, "unable to acquire merge lock")
    ELSE [Did(f, "rhs.raftMu.Lock") EXCEPT !.r.rhs.raftMuHeld = TRUE,
                                           !.cmd.splitMergeUnlock = TRUE]

\* Stage, the split or merge lock: Replica.maybeAcquireSplitMergeLock locks
\* the raft mutex of the right-hand replica for a command that still carries
\* a split or a merge, and the command keeps the unlock function.
maybeAcquireSplitMergeLock(f, env) ==
    LET res == f.cmd.ReplicatedEvalResult IN
    IF res.Split = Nil /\ res.Merge = Nil THEN f
    ELSE IF env.fault = "splitMergeLock"
    THEN Fail(f, IF res.Split # Nil THEN "unable to acquire split lock"
                                    ELSE "unable to acquire merge lock")
    ELSE [Did(f, "rhs.raftMu.Lock") EXCEPT !.r.rhs.raftMuHeld = TRUE,
                                           !.cmd.splitMergeUnlock = TRUE]

migrateReplicatedResult(f) ==
    LET res == f.cmd.ReplicatedEvalResult IN
    IF res.DeprecatedDelta # Nil
    THEN IF res.Delta # ZeroStats
         THEN Fatal(f)
         ELSE [f EXCEPT !.cmd.ReplicatedEvalResult.Delta = ToStatsDelta(Deref(res.DeprecatedDelta)),
                        !.cmd.ReplicatedEvalResult.DeprecatedDelta = Nil]
    ELSE f

runPreApplyTriggersBeforeStagingWriteBatch(f) ==
    IF f.cmd.LogicalOpLog # Nil THEN Did(f, "populatePrevValsInLogicalOpLog") ELSE f

\* Stage, the follower write-byte accounting.
accountFollowerWrites(f) ==
    IF ~f.cmd.IsLocal
    THEN [f EXCEPT !.b.followerStoreWriteBytes.NumEntries = @ + 1]
    ELSE f

\* stageWriteBatch; applyFails says the engine batch refuses the write batch.
stageWriteBatch(f, applyFails) ==
    LET wb == f.cmd.WriteBatch IN
    IF wb = Nil THEN f
    ELSE LET counted == [f EXCEPT !.b.mutations = @ + Len(Deref(wb))] IN
         IF applyFails
         THEN Fail(counted, "unable to apply WriteBatch")
         ELSE [counted EXCEPT !.b.batch = Ptr(Deref(@) \o Deref(wb))]

\* changeRemovesStore
changeRemovesStore(desc, change, storeID) == storeID \notin change.Desc

\* Replica.preDestroyRaftMuLocked: clears the replica's data (only the
\* range-ID-local keys when asked so) and leaves a tombstone behind.
preDestroyRaftMuLocked(batch, nextReplicaID, clearRangeIDLocalOnly) ==
    batch \o << Clear(IF clearRangeIDLocalOnly THEN RangeIDLocalKeys ELSE ReplicaKeys),
                Put("RangeTombstone", <<nextReplicaID>>) >>

\* A slip: the removal clears the range-ID-local keys alone, as a merge does.
removeReplicaTriggerRangeIDLocalOnly(f, env) ==
    LET change == f.cmd.ReplicatedEvalResult.ChangeReplicas IN
    IF /\ change # Nil
       /\ changeRemovesStore(f.b.state.Desc, Deref(change), f.r.storeID)
       /\ ~env.DisableEagerReplicaRemoval
    THEN LET marked == [f EXCEPT !.r.destroyStatus = "destroyReasonRemoved",
                                 !.b.changeRemovesReplica = TRUE,
                                 !.fx = @ \o << "readOnlyCmdMu.Lock", "mu.Lock", "destroyStatus.Set",
                                                "mu.Unlock", "readOnlyCmdMu.Unlock" >>] IN
         IF env.fault = "preDestroy"
         THEN Fail(marked, "unable to destroy replica before removal")
         ELSE [marked EXCEPT !.b.batch = Ptr(preDestroyRaftMuLocked(
                   Deref(@), Deref(change).NextReplicaID, TRUE))]
    ELSE f

\* runPreApplyTriggersAfterStagingWriteBatch, the replica-removal trigger.
removeReplicaTrigger(f, env) ==
    LET change == f.cmd.ReplicatedEvalResult.ChangeReplicas IN
    IF /\ change # Nil
       /\ changeRemovesStore(f.b.state.Desc, Deref(change), f.r.storeID)
       /\ ~env.DisableEagerReplicaRemoval
    THEN LET marked == [f EXCEPT !.r.destroyStatus = "destroyReasonRemoved",
                                 !.b.changeRemovesReplica = TRUE,
                                 !.fx = @ \o << "readOnlyCmdMu.Lock", "mu.Lock", "destroyStatus.Set",
                                                "mu.Unlock", "readOnlyCmdMu.Unlock" >>] IN
         IF env.fault = "preDestroy"
         THEN Fail(marked, "unable to destroy replica before removal")
         ELSE [marked EXCEPT !.b.batch = Ptr(preDestroyRaftMuLocked(
                   Deref(@), Deref(change).NextReplicaID, FALSE))]
    ELSE f

\* A slip: the logical ops are handed over when there are some.
logicalOpsTriggerOnLog(f) ==
    IF f.cmd.LogicalOpLog # Nil THEN Did(f, "handleLogicalOpLog") ELSE f

\* runPreApplyTriggersAfterStagingWriteBatch, the hand-over of the logical ops.
logicalOpsTrigger(f) ==
    IF f.cmd.WriteBatch # Nil THEN Did(f, "handleLogicalOpLog")
    ELSE IF f.cmd.LogicalOpLog # Nil THEN Fatal(f)
    ELSE f

\* addSSTablePreApply: the SSTable is ingested into the engine, past the batch.
addSSTablePreApply(f) ==
    [f EXCEPT !.ingested = Append(@, Put("sst", << f.cmd.Index >>))]

\* A slip: the SSTable is written through the batch.
addSSTableTriggerInBatch(f) ==
    LET sst == f.cmd.ReplicatedEvalResult.AddSSTable IN
    IF sst = Nil THEN f
    ELSE LET staged == [Did(f, "addSSTablePreApply") EXCEPT
                           !.b.batch = Ptr(Append(Deref(@), Put("sst", << f.cmd.Index >>)))]
             told == IF Deref(sst).AtWriteTimestamp
                     THEN Did(staged, "handleSSTableRaftMuLocked") ELSE staged
         IN [told EXCEPT !.cmd.ReplicatedEvalResult.AddSSTable = Nil]

\* runPreApplyTriggersAfterStagingWriteBatch, the ingestion of an SSTable.
addSSTableTrigger(f) ==
    LET sst == f.cmd.ReplicatedEvalResult.AddSSTable IN
    IF sst = Nil THEN f
    ELSE LET ingested == Did(addSSTablePreApply(f), "addSSTablePreApply")
             told == IF Deref(sst).AtWriteTimestamp
                     THEN Did(ingested, "handleSSTableRaftMuLocked") ELSE ingested
         IN [told EXCEPT !.cmd.ReplicatedEvalResult.AddSSTable = Nil]

\* splitPreApply: the hard state of the right-hand replica goes into the batch.
splitPreApply(batch, idx) == batch \o << Put("rhs.RaftHardState", << idx >>) >>

\* runPreApplyTriggersAfterStagingWriteBatch, the split.
splitTrigger(f) ==
    IF f.cmd.ReplicatedEvalResult.Split = Nil THEN f
    ELSE [Did(Did(f, "splitPreApply"), "disconnectRangefeed") EXCEPT
             !.b.batch = Ptr(splitPreApply(Deref(@), f.cmd.Index))]

\* rhsRepl.preDestroyRaftMuLocked: clears the right-hand replica's data (only
\* the range-ID-local keys when asked so) and leaves its tombstone behind.
rhsPreDestroyRaftMuLocked(batch, nextReplicaID, clearRangeIDLocalOnly) ==
    batch \o << Clear(IF clearRangeIDLocalOnly THEN RHSRangeIDLocalKeys ELSE RHSKeys),
                Put("rhs.RangeTombstone", <<nextReplicaID>>) >>

mergedTombstoneReplicaID == 2147483647

\* A slip: the right-hand replica is marked with its inner lock taken first.
markDestroyedMuFirst(f) ==
    [f EXCEPT !.r.rhs.destroyStatus = "destroyReasonRemoved",
              !.fx = @ \o << "rhs.mu.Lock", "rhs.readOnlyCmdMu.Lock", "rhs.destroyStatus.Set",
                             "rhs.readOnlyCmdMu.Unlock", "rhs.mu.Unlock" >>]

\* The merge trigger marks the right-hand replica as destroyed.
markDestroyed(f) ==
    [f EXCEPT !.r.rhs.destroyStatus = "destroyReasonRemoved",
              !.fx = @ \o << "rhs.readOnlyCmdMu.Lock", "rhs.mu.Lock", "rhs.destroyStatus.Set",
                             "rhs.mu.Unlock", "rhs.readOnlyCmdMu.Unlock" >>]

\* runPreApplyTriggersAfterStagingWriteBatch, the merge.
mergeTrigger(f, env) ==
    IF f.cmd.ReplicatedEvalResult.Merge = Nil THEN f
    ELSE IF env.fault = "getReplica"
    THEN Fail(f, "unable to get replica for merge")
    ELSE IF ~f.r.rhs.raftMuHeld
    THEN Fatal(Did(f, "rhs.raftMu.AssertHeld"))
    ELSE LET marked == markDestroyed(Did(f, "rhs.raftMu.AssertHeld")) IN
         IF env.fault = "preDestroy"
         THEN Fail(marked, "unable to destroy replica before merge")
         ELSE [Did(Did(marked, "disconnectRangefeed"), "rhs.disconnectRangefeed") EXCEPT
                  !.b.batch = Ptr(rhsPreDestroyRaftMuLocked(Deref(@), mergedTombstoneReplicaID, TRUE))]

\* Replica.handleGCThresholdResult: the replica's in-memory GC threshold.
handleGCThresholdResult(rr, thresh) ==
    IF IsEmptyTS(thresh) THEN rr ELSE [rr EXCEPT !.state.GCThreshold = thresh]

\* A slip: the threshold is staged in the batch's view and not published.
gcThresholdTriggerInView(f) ==
    LET st == f.cmd.ReplicatedEvalResult.State IN
    IF st = Nil \/ Deref(st).GCThreshold = Nil THEN f
    ELSE [f EXCEPT !.b.state.GCThreshold = Deref(Deref(st).GCThreshold),
                   !.cmd.ReplicatedEvalResult.State = Ptr([Deref(st) EXCEPT !.GCThreshold = Nil])]

\* A slip: the field is cleared and the threshold published nowhere.
gcThresholdTriggerUnpublished(f) ==
    LET st == f.cmd.ReplicatedEvalResult.State IN
    IF st = Nil \/ Deref(st).GCThreshold = Nil THEN f
    ELSE [f EXCEPT !.cmd.ReplicatedEvalResult.State = Ptr([Deref(st) EXCEPT !.GCThreshold = Nil])]

\* runPreApplyTriggersAfterStagingWriteBatch, the GC threshold.
gcThresholdTrigger(f) ==
    LET st == f.cmd.ReplicatedEvalResult.State IN
    IF st = Nil \/ Deref(st).GCThreshold = Nil THEN f
    ELSE [Did(f, "handleGCThresholdResult") EXCEPT
             !.r = handleGCThresholdResult(@, Deref(Deref(st).GCThreshold)),
             !.cmd.ReplicatedEvalResult.State = Ptr([Deref(st) EXCEPT !.GCThreshold = Nil])]

\* handleTruncatedStateBelowRaftPreApply: a truncation at or below the
\* replica's truncated index is discarded; another one clears the log up to
\* its index and writes the truncated state, both in the batch.
handleTruncatedStateBelowRaftPreApply(currentTruncatedState, suggestedTruncatedState, batch) ==
    IF suggestedTruncatedState.Index <= currentTruncatedState
    THEN [apply |-> FALSE, batch |-> batch]
    ELSE [apply |-> TRUE,
          batch |-> batch \o << Clear({"RaftLog"}),
                                Put("RaftTruncatedState", << suggestedTruncatedState.Index >>) >>]

\* A slip: the strongly coupled path is taken only when the setting is off.
truncationAppliesBySettingAlone(looselyCoupledTruncation, raftExpectedFirstIndex) ==
    ~looselyCoupledTruncation

\* runPreApplyTriggersAfterStagingWriteBatch, the choice of the truncation
\* regime.
truncationApplies(looselyCoupledTruncation, raftExpectedFirstIndex) ==
    ~looselyCoupledTruncation \/ raftExpectedFirstIndex = 0

\* A slip: the log size stays trusted when a truncation is discarded.
markLogSizeTrusted(rr) == rr

\* The replica's raft log size is marked as not to be trusted.
markLogSizeUntrusted(rr) == [rr EXCEPT !.raftLogSizeTrusted = FALSE]

\* runPreApplyTriggersAfterStagingWriteBatch, the truncation of the raft log.
truncationTrigger(f, env) ==
    LET res == f.cmd.ReplicatedEvalResult
        st == res.State IN
    IF st = Nil \/ Deref(st).TruncatedState = Nil THEN f
    ELSE
    LET looselyCoupledTruncation == env.looselyCoupledTruncation
        suggested == Deref(Deref(st).TruncatedState)
        strong == truncationApplies(looselyCoupledTruncation, res.RaftExpectedFirstIndex)
        below == handleTruncatedStateBelowRaftPreApply(f.b.state.TruncatedState, suggested,
                                                       Deref(f.b.batch))
    IN
    IF strong /\ env.fault = "truncatedState"
    THEN Fail(f, "unable to handle truncated state")
    ELSE
    LET apply == IF strong THEN below.apply ELSE FALSE
        done == IF strong
                THEN [Did(f, "handleTruncatedStateBelowRaftPreApply") EXCEPT
                         !.b.batch = Ptr(below.batch)]
                ELSE [Did(f, "addPendingTruncation") EXCEPT
                         !.r.pendingTruncations =
                             Append(@, [TruncatedState |-> suggested,
                                        RaftExpectedFirstIndex |-> res.RaftExpectedFirstIndex,
                                        RaftLogDelta |-> res.RaftLogDelta])]
    IN
    IF apply THEN done
    ELSE LET cleared == [done EXCEPT
                 !.cmd.ReplicatedEvalResult.State = Ptr([Deref(st) EXCEPT !.TruncatedState = Nil]),
                 !.cmd.ReplicatedEvalResult.RaftLogDelta = 0,
                 !.cmd.ReplicatedEvalResult.RaftExpectedFirstIndex = 0]
         IN IF ~looselyCoupledTruncation
            THEN [Did(Did(cleared, "mu.Lock"), "mu.Unlock") EXCEPT !.r = markLogSizeUntrusted(@)]
            ELSE cleared

runPreApplyTriggersAfterStagingWriteBatch(f, env) ==
    Then(ThenWith(ThenWith(Then(ThenWith(Then(
        addSSTableTrigger(f),
        splitTrigger),
        mergeTrigger, env),
        gcThresholdTrigger),
        truncationTrigger, env),
        removeReplicaTrigger, env),
        logicalOpsTrigger)

\* closedTimestampSetterInfo.record
recordSetter(c, lease) == [leaseIdx |-> c.LeaseIndex, lease |-> lease.Sequence]

\* A slip: the delta replaces the stats of the view.
stageStatsOverwrites(stats, delta) == ToStats(delta)

\* stageTrivialReplicatedEvalResult, the stats: the delta is added to the view.
stageStats(stats, delta) == MVCCStatsAdd(stats, ToStats(delta))

\* A slip: the view's lease-applied index is advanced by one.
stageLeaseAppliedIndexAdvances(viewIndex, leaseAppliedIndex) ==
    IF leaseAppliedIndex # 0 THEN viewIndex + 1 ELSE viewIndex

\* A slip: the test of the lease-applied index is inverted.
stageLeaseAppliedIndexWhenZero(viewIndex, leaseAppliedIndex) ==
    IF leaseAppliedIndex = 0 THEN leaseAppliedIndex ELSE viewIndex

\* stageTrivialReplicatedEvalResult, the lease-applied index.
stageLeaseAppliedIndex(viewIndex, leaseAppliedIndex) ==
    IF leaseAppliedIndex # 0 THEN leaseAppliedIndex ELSE viewIndex

\* stageTrivialReplicatedEvalResult, the closed timestamp.
stageClosedTimestamp(viewClosed, cts) ==
    IF cts # Nil /\ ~IsEmptyTS(Deref(cts)) THEN Deref(cts) ELSE viewClosed

stageTrivialReplicatedEvalResult(f) ==
    IF f.cmd.Index = 0 THEN Fatal(f)
    ELSE
    LET c == f.cmd
        cts == c.ClosedTimestamp
        st == f.b.state
        st1 == [st EXCEPT !.RaftAppliedIndex     = c.Index,
                          !.RaftAppliedIndexTerm = c.Term,
                          !.LeaseAppliedIndex    = stageLeaseAppliedIndex(@, c.LeaseIndex),
                          !.RaftClosedTimestamp  = stageClosedTimestamp(@, cts),
                          !.Stats                = stageStats(@, c.ReplicatedEvalResult.Delta)]
        rs == c.ReplicatedEvalResult.State
        staged == [f EXCEPT !.b.state = st1,
                            !.b.closedTimestampSetter =
                                IF cts # Nil /\ ~IsEmptyTS(Deref(cts))
                                THEN recordSetter(c, st.Lease) ELSE @]
    IN IF rs # Nil /\ Deref(rs).GCHint # Nil
       THEN [Did(staged, "handleGCHintResult") EXCEPT
                !.r.gcHint = Deref(Deref(rs).GCHint),
                !.cmd.ReplicatedEvalResult.State = Ptr([Deref(rs) EXCEPT !.GCHint = Nil])]
       ELSE staged

\* Stage, the entry counters.
countEntry(f) ==
    [f EXCEPT !.b.entries = @ + 1,
              !.b.entryBytes = @ + f.cmd.DataSize,
              !.b.emptyEntries = IF f.cmd.DataSize = 0 THEN @ + 1 ELSE @]

\* A slip: the entry is counted before the command has been checked.
StageFrameCountsFirst(bb, rr, c, env) ==
    Then(ThenWith(ThenWith(Then(Then(Then(ThenWith(Then(Then(
        checkIndex(Frame(bb, rr, c)),
        countEntry),
        checkCommand),
        maybeAcquireSplitMergeLock, env),
        migrateReplicatedResult),
        runPreApplyTriggersBeforeStagingWriteBatch),
        accountFollowerWrites),
        stageWriteBatch, env.fault = "applyBatch"),
        runPreApplyTriggersAfterStagingWriteBatch, env),
        stageTrivialReplicatedEvalResult)

\* replicaAppBatch.Stage as a whole; env is what the call meets (see Env).
StageFrame(bb, rr, c, env) ==
    Then(Then(ThenWith(ThenWith(Then(Then(Then(ThenWith(Then(
        checkIndex(Frame(bb, rr, c)),
        checkCommand),
        maybeAcquireSplitMergeLock, env),
        migrateReplicatedResult),
        runPreApplyTriggersBeforeStagingWriteBatch),
        accountFollowerWrites),
        stageWriteBatch, env.fault = "applyBatch"),
        runPreApplyTriggersAfterStagingWriteBatch, env),
        stageTrivialReplicatedEvalResult),
        countEntry)

----------------------------------------------------------------------------
(* The commands the outer loop may hand to Stage, given the batch's view.  *)

WriteBatchAt(idx) == Ptr(<< Put("a", <<idx>>) >>)
SomeOps == Ptr("ops")
Result(wts, delta, deprecated, change) ==
    [ WriteTimestamp  |-> wts,
      Delta           |-> delta,
      DeprecatedDelta |-> deprecated,
      ChangeReplicas  |-> change,
      AddSSTable      |-> Nil,
      State           |-> Nil,
      Split           |-> Nil,
      Merge           |-> Nil,
      RaftLogDelta    |-> 0,
      RaftExpectedFirstIndex |-> 0 ]
\* kvserverpb.ReplicatedEvalResult.State with a GC threshold alone, with a
\* truncated state alone, with a GC hint alone.
GCThresholdState(ts) == Ptr([GCThreshold |-> Ptr(ts), TruncatedState |-> Nil, GCHint |-> Nil])
TruncatedStateAt(index) ==
    Ptr([GCThreshold |-> Nil, TruncatedState |-> Ptr([Index |-> index]), GCHint |-> Nil])
GCHintState(hint) == Ptr([GCThreshold |-> Nil, TruncatedState |-> Nil, GCHint |-> Ptr(hint)])
\* kvserverpb.ReplicatedEvalResult_AddSSTable
SSTable(atWriteTimestamp) == Ptr([AtWriteTimestamp |-> atWriteTimestamp])
Change(stores) == Ptr([Desc |-> stores, NextReplicaID |-> 4])
Pointers(S) == {Nil} \cup {Ptr(v) : v \in S}
\* Remote; local; local and intent-writing.
Localities == { <<FALSE, FALSE>>, <<TRUE, FALSE>>, <<TRUE, TRUE>> }
LeaseIndexesAround(lai) == {i \in {lai - 1, lai, lai + 1} : i >= 0}

\* A trivial command with no payload: the shape the families below vary.
PlainCmd(st, mli, seq, wts) ==
    NewCmd(st.RaftAppliedIndex + 1, 1, mli, seq, Nil, Nil, Nil,
           Result(wts, ZeroStats, Nil, Nil), FALSE, FALSE, 1)

\* Commands whose raft index is not the next one.
BadIndexCmds(st) ==
    { [PlainCmd(st, st.LeaseAppliedIndex + 1, st.Lease.Sequence, MaxTS) EXCEPT !.Index = idx]
      : idx \in {0, st.RaftAppliedIndex, st.RaftAppliedIndex + 2} }

\* Commands that exercise the three rules of the rejection predicate.
PredicateCmds(st) ==
    { PlainCmd(st, mli, seq, wts)
      : mli \in LeaseIndexesAround(st.LeaseAppliedIndex),
        seq \in LeaseSequences, wts \in Timestamps }

\* Commands the lease-applied-index rule rejects although they carry a closed
\* timestamp, logical ops with or without a write batch, a stats delta and,
\* some, a change of replicas that removes this store.
RejectedCmds(st) ==
    { NewCmd(st.RaftAppliedIndex + 1, 1, st.LeaseAppliedIndex, st.Lease.Sequence,
             Ptr(MaxTS), wb, SomeOps,
             Result(MaxTS, SomeDelta, Nil, change), local, local, 1)
      : change \in {Nil, Change({OtherStore})}, local \in BOOLEAN,
        wb \in {Nil, WriteBatchAt(st.RaftAppliedIndex + 1)} }

\* Commands that exercise the closed timestamp: carried and written under.
ClosedTimestampCmds(st) ==
    { NewCmd(st.RaftAppliedIndex + 1, 1, st.LeaseAppliedIndex + 1, st.Lease.Sequence, cts,
             WriteBatchAt(st.RaftAppliedIndex + 1), Nil,
             Result(wts, ZeroStats, Nil, Nil), loc[1], loc[2], 1)
      : cts \in Pointers(Timestamps), wts \in Timestamps, loc \in Localities }

\* Commands that exercise the stats delta, in both representations, the
\* logical-op log with and without a write batch, and a later term.
PayloadCmds(st) ==
    { NewCmd(st.RaftAppliedIndex + 1, term, st.LeaseAppliedIndex + 1, st.Lease.Sequence,
             Nil, wb, ops, Result(MaxTS, delta, deprecated, Nil), FALSE, FALSE, 1)
      : term \in Terms, wb \in {Nil, WriteBatchAt(st.RaftAppliedIndex + 1)}, ops \in {Nil, SomeOps},
        delta \in Deltas, deprecated \in Pointers({SomeDelta}) }

\* The empty entry raft appends when a leader is elected.
EmptyEntryCmds(st) ==
    { [PlainCmd(st, 0, 0, 0) EXCEPT !.DataSize = 0] }

\* Commands that change the replicas of the range.
ChangeReplicasCmds(st) ==
    { NewCmd(st.RaftAppliedIndex + 1, 1, st.LeaseAppliedIndex + 1, st.Lease.Sequence,
             Nil, Nil, Nil, Result(MaxTS, ZeroStats, Nil, Change(stores)), local, FALSE, 1)
      : stores \in {{ThisStore, OtherStore}, {OtherStore}}, local \in BOOLEAN }
    \cup { NewCmd(st.RaftAppliedIndex + 1, 1, st.LeaseAppliedIndex + 1, st.Lease.Sequence,
                  Nil, WriteBatchAt(st.RaftAppliedIndex + 1), Nil,
                  Result(MaxTS, SomeDelta, Nil, Change({OtherStore})), FALSE, FALSE, 1) }

\* Commands that raise the GC threshold, and ones that ingest an SSTable.
GCThresholdCmds(st) ==
    { NewCmd(st.RaftAppliedIndex + 1, 1, mli, st.Lease.Sequence, Nil, Nil, Nil,
             [Result(MaxTS, ZeroStats, Nil, Nil) EXCEPT !.State = GCThresholdState(MaxTS)],
             FALSE, FALSE, 1)
      : mli \in {st.LeaseAppliedIndex, st.LeaseAppliedIndex + 1} }

AddSSTableCmds(st) ==
    { NewCmd(st.RaftAppliedIndex + 1, 1, st.LeaseAppliedIndex + 1, st.Lease.Sequence, Nil, Nil, Nil,
             [Result(MaxTS, SomeDelta, Nil, Nil) EXCEPT !.AddSSTable = SSTable(atWriteTimestamp)],
             FALSE, FALSE, 1)
      : atWriteTimestamp \in BOOLEAN }

\* kvserverpb.ReplicatedEvalResult.IsTrivial, as the outer loop asks it of the
\* decoded command to put a non-trivial command in a batch of its own.
IsTrivial(c) ==
    /\ c.ReplicatedEvalResult.ChangeReplicas = Nil
    /\ c.ReplicatedEvalResult.AddSSTable = Nil
    /\ c.ReplicatedEvalResult.State = Nil
    /\ c.ReplicatedEvalResult.Split = Nil
    /\ c.ReplicatedEvalResult.Merge = Nil

Cmds(st) ==
    BadIndexCmds(st) \cup PredicateCmds(st) \cup RejectedCmds(st)
        \cup ClosedTimestampCmds(st) \cup PayloadCmds(st) \cup EmptyEntryCmds(st)
        \cup ChangeReplicasCmds(st)

\* What a call of Stage meets besides the command: the collaborator that
\* fails, if one does, store.TestingKnobs().DisableEagerReplicaRemoval, and
\* the cluster setting that enables loosely coupled truncation of the log.
Env(fault, knob) ==
    [fault |-> fault, DisableEagerReplicaRemoval |-> knob, looselyCoupledTruncation |-> FALSE]
NoEnv == Env("none", FALSE)

\* What Stage is handed: a command, and what the call meets.
StageInputs(st) ==
    { [cmd |-> c, env |-> Env("none", FALSE)] : c \in Cmds(st) }
      \cup { [cmd |-> c, env |-> Env("applyBatch", FALSE)] : c \in ClosedTimestampCmds(st) }
      \cup { [cmd |-> c, env |-> Env("preDestroy", FALSE)] : c \in ChangeReplicasCmds(st) }
      \cup { [cmd |-> c, env |-> Env("none", TRUE)] : c \in ChangeReplicasCmds(st) }

----------------------------------------------------------------------------
(* The state machine *)

InitialReplicaState(gc) ==
    [ RaftAppliedIndex     |-> 1,
      RaftAppliedIndexTerm |-> 1,
      LeaseAppliedIndex    |-> 1,
      Stats                |-> ZeroStats,
      RaftClosedTimestamp  |-> 0,
      GCThreshold          |-> gc,
      Lease                |-> [Sequence |-> 1],
      Desc                 |-> {ThisStore, OtherStore},
      TruncatedState       |-> 0 ]

AppliedStateOf(st) ==
    RangeAppliedState(st.RaftAppliedIndex, st.LeaseAppliedIndex, st.RaftAppliedIndexTerm,
                      st.Stats, st.RaftClosedTimestamp)

InitialKV(st) ==
    [ k \in EngineKeys |->
        CASE k = "RangeAppliedState"  -> Ptr(AppliedStateOf(st))
          [] k = "RaftHardState"      -> Ptr(<<1>>)
          [] k = "RaftTruncatedState" -> Ptr(<<0>>)
          [] k = "RaftLog"            -> Ptr(<<1>>)
          [] k = "RangeDescriptor"    -> Ptr(<<1>>)
          [] k = "old"                -> Ptr(<<OldVersionTS>>)
          [] k \in RHSKeys            -> Ptr(<<1>>)
          [] OTHER                    -> Nil ]

NoCommit == [ops |-> <<>>, sync |-> FALSE]

ZeroStateMachineStats ==
    [ entriesProcessed      |-> 0,
      entriesProcessedBytes |-> 0,
      numEmptyEntries       |-> 0,
      batchesProcessed      |-> 0,
      followerNumEntries    |-> 0 ]

\* The replica the other store holds of the same range, in the same state.
PeerOf(rr) ==
    [ r          |-> [rr EXCEPT !.storeID = OtherStore],
      b          |-> ZeroBatch,
      cmd        |-> NoCmd,
      err        |-> "none",
      nonTrivial |-> FALSE ]

\* The replica and its engine when the process has started.
InitialReplica(gc) ==
    [ storeID               |-> ThisStore,
      state                 |-> InitialReplicaState(gc),
      closedTimestampSetter |-> ZeroSetter,
      destroyStatus         |-> "destroyReasonAlive",
      muHeld                |-> FALSE,
      raftLogSizeTrusted    |-> TRUE,
      pendingTruncations    |-> <<>>,
      gcHint                |-> 0,
      rhs                   |-> [destroyStatus |-> "destroyReasonAlive", raftMuHeld |-> FALSE],
      largestPreviousMaxRangeSizeBytes |-> 8,
      conf                  |-> [RangeMaxBytes |-> 4] ]
InitialEngine(gc) == [kv |-> InitialKV(InitialReplicaState(gc)), last |-> NoCommit]

\* The range descriptor cache (range_cache.go).  Keys are numbers; the
\* ranges of the model start and end at even keys, so that Next(k) = k + 1
\* lies below every range boundary above k, as k.Next() does.
KeyMin == 0
KeyMax == 4
RKeys == KeyMin .. KeyMax
RKeyNext(k) == k + 1
\* keys.RangeMetaKey of a user key: the key under the meta2 prefix.
Meta2Prefix == 8
RangeMetaKey(k) == Meta2Prefix + k

\* roachpb.RangeDescriptor; addr tells one object from another of the same
\* value, 0 is an object the cache never held.  A legacy descriptor has no
\* comparable generation.
Descriptor(start, end, gen, comparable, addr) ==
    [StartKey |-> start, EndKey |-> end, Generation |-> gen,
     GenerationComparable |-> comparable, addr |-> addr]
\* A range before its split, the two ranges after it, and two descriptors
\* written before generations were comparable.
DescriptorValues ==
    { Descriptor(0, 4, 1, TRUE, 0), Descriptor(0, 2, 2, TRUE, 0), Descriptor(2, 4, 2, TRUE, 0),
      Descriptor(0, 4, 0, FALSE, 0), Descriptor(2, 4, 0, FALSE, 0) }
\* roachpb.RangeDescriptor.Equal: the values are the same.
DescEqual(d, e) == [d EXCEPT !.addr = 0] = [e EXCEPT !.addr = 0]
\* roachpb.RangeDescriptor.ContainsKey and ContainsKeyInverted
ContainsKey(d, k) == d.StartKey <= k /\ k < d.EndKey
ContainsKeyInverted(d, k) == d.StartKey < k /\ k <= d.EndKey
Contains(d, k, inverted) == IF inverted THEN ContainsKeyInverted(d, k) ELSE ContainsKey(d, k)

\* cache.OrderedCache: at a meta key, the descriptor cached under it.
CacheKeys == { RangeMetaKey(k) : k \in RKeys }
EmptyCache == [k \in CacheKeys |-> Nil]
\* OrderedCache.CeilEntry: the key of the first entry at or after k, if any.
CeilEntry(cache, k) ==
    LET at == { e \in CacheKeys : e >= k /\ cache[e] # Nil } IN
    IF at = {} THEN Nil ELSE Ptr(CHOOSE e \in at : \A o \in at : e <= o)
\* OrderedCache.DelEntry and Add
DelEntry(cache, e) == [cache EXCEPT ![e] = Nil]
Add(cache, e, d) == [cache EXCEPT ![e] = Ptr(d)]
\* The addresses of the descriptors in the cache, and one that is free.
Addrs(cache) == { Deref(cache[e]).addr : e \in { k \in CacheKeys : cache[k] # Nil } }
NewAddr(used) == CHOOSE a \in 1 .. Cardinality(used) + 1 : a \notin used

\* A slip: the cache is never found to hold a descriptor.
getCachedNothing(cache, key, inverted) == Nil

\* getCachedRangeDescriptorLocked: the key of the entry whose descriptor
\* contains the key, if there is one.
getCachedRangeDescriptorLocked(cache, key, inverted) ==
    LET metaKey == IF ~inverted THEN RangeMetaKey(RKeyNext(key)) ELSE RangeMetaKey(key)
        entry == CeilEntry(cache, metaKey)
    IN IF entry = Nil THEN Nil
       ELSE IF ~Contains(Deref(cache[Deref(entry)]), key, inverted) THEN Nil
       ELSE entry

\* A slip: the descriptor that covers the key is evicted whatever was seen.
evictWhateverWasSeen(cache, descKey, seenDesc, inverted) ==
    LET entry == getCachedRangeDescriptorLocked(cache, descKey, inverted) IN
    IF entry = Nil THEN cache ELSE DelEntry(cache, Deref(entry))

\* evictCachedRangeDescriptorLocked
evictCachedRangeDescriptorLocked(cache, descKey, seenDesc, inverted) ==
    LET entry == getCachedRangeDescriptorLocked(cache, descKey, inverted) IN
    IF entry = Nil THEN cache
    ELSE LET cachedDesc == Deref(cache[Deref(entry)])
             differ ==
                 /\ seenDesc # Nil
                 /\ LET seen == Deref(seenDesc) IN
                    IF seen.GenerationComparable /\ cachedDesc.GenerationComparable
                    THEN seen.Generation # cachedDesc.Generation
                    ELSE IF ~seen.GenerationComparable /\ ~cachedDesc.GenerationComparable
                    THEN seen.addr # cachedDesc.addr
                    ELSE TRUE
         IN IF differ THEN cache ELSE DelEntry(cache, Deref(entry))

\* A slip: the entries that end inside the descriptor are not looked at.
clearOverlappingAtEndOnly(cache, desc) ==
    LET endMeta == RangeMetaKey(desc.EndKey)
        entry == CeilEntry(cache, endMeta)
        overlaps ==
            /\ entry # Nil
            /\ LET cached == Deref(cache[Deref(entry)]) IN
               cached.StartKey < desc.EndKey /\ ~(cached.EndKey < desc.EndKey)
        newerAtEnd ==
            /\ overlaps
            /\ LET cached == Deref(cache[Deref(entry)]) IN
               IF desc.GenerationComparable /\ cached.GenerationComparable
               THEN desc.Generation <= cached.Generation
               ELSE DescEqual(desc, cached)
        entriesToEvict == IF overlaps /\ ~newerAtEnd THEN entry ELSE {}
    IN [cache |-> [e \in CacheKeys |-> IF e \in entriesToEvict THEN Nil ELSE cache[e]],
        continueWithInsert |-> ~newerAtEnd]

\* A slip: a descriptor of the generation of the cached one replaces it.
clearOverlappingOlderOrEqual(cache, desc) ==
    LET startMeta == RangeMetaKey(desc.StartKey)
        endMeta == RangeMetaKey(desc.EndKey)
        entry == CeilEntry(cache, endMeta)
        overlaps ==
            /\ entry # Nil
            /\ LET cached == Deref(cache[Deref(entry)]) IN
               cached.StartKey < desc.EndKey /\ ~(cached.EndKey < desc.EndKey)
        newerAtEnd ==
            /\ overlaps
            /\ LET cached == Deref(cache[Deref(entry)]) IN
               IF desc.GenerationComparable /\ cached.GenerationComparable
               THEN desc.Generation < cached.Generation
               ELSE DescEqual(desc, cached)
        within == { e \in CacheKeys : e >= RKeyNext(startMeta) /\ e < endMeta /\ cache[e] # Nil }
        newerWithin ==
            { e \in within : /\ desc.GenerationComparable
                             /\ Deref(cache[e]).GenerationComparable
                             /\ desc.Generation < Deref(cache[e]).Generation }
        entriesToEvict ==
            (IF overlaps /\ ~newerAtEnd THEN entry ELSE {}) \cup (within \ newerWithin)
    IN [cache |-> [e \in CacheKeys |-> IF e \in entriesToEvict THEN Nil ELSE cache[e]],
        continueWithInsert |-> ~newerAtEnd /\ newerWithin = {}]

\* clearOverlappingCachedRangeDescriptors: the cache without the entries that
\* overlap desc and are to go, and whether the insertion should go on.
clearOverlappingCachedRangeDescriptors(cache, desc) ==
    LET startMeta == RangeMetaKey(desc.StartKey)
        endMeta == RangeMetaKey(desc.EndKey)
        entry == CeilEntry(cache, endMeta)
        overlaps ==
            /\ entry # Nil
            /\ LET cached == Deref(cache[Deref(entry)]) IN
               cached.StartKey < desc.EndKey /\ ~(cached.EndKey < desc.EndKey)
        newerAtEnd ==
            /\ overlaps
            /\ LET cached == Deref(cache[Deref(entry)]) IN
               IF desc.GenerationComparable /\ cached.GenerationComparable
               THEN desc.Generation <= cached.Generation
               ELSE DescEqual(desc, cached)
        within == { e \in CacheKeys : e >= RKeyNext(startMeta) /\ e < endMeta /\ cache[e] # Nil }
        newerWithin ==
            { e \in within : /\ desc.GenerationComparable
                             /\ Deref(cache[e]).GenerationComparable
                             /\ desc.Generation <= Deref(cache[e]).Generation }
        entriesToEvict ==
            (IF overlaps /\ ~newerAtEnd THEN entry ELSE {}) \cup (within \ newerWithin)
    IN [cache |-> [e \in CacheKeys |-> IF e \in entriesToEvict THEN Nil ELSE cache[e]],
        continueWithInsert |-> ~newerAtEnd /\ newerWithin = {}]

\* insertRangeDescriptorsLocked: each descriptor in turn, a new object in the
\* cache; the first that is not to be inserted ends the call.  The loop's
\* body works on the cache as it is when the loop comes to the descriptor.
RECURSIVE insertRangeDescriptorsLocked(_, _)
insertRangeDescriptorsLocked(cache, rs) ==
    IF rs = <<>> THEN cache
    ELSE LET InsertInto(held) ==
                 LET cleared == clearOverlappingCachedRangeDescriptors(held, Head(rs)) IN
                 IF ~cleared.continueWithInsert THEN cleared.cache
                 ELSE insertRangeDescriptorsLocked(
                          Add(cleared.cache, RangeMetaKey(Head(rs).EndKey),
                              [Head(rs) EXCEPT !.addr = NewAddr(Addrs(cleared.cache))]),
                          Tail(rs))
         IN CHOOSE out \in { InsertInto(held) : held \in {cache} } : TRUE

\* No call of the cache yet.
NoCacheCall == [op |-> "none", before |-> EmptyCache, rs |-> <<>>, descKey |-> KeyMin,
                seenDesc |-> Nil, inverted |-> FALSE]
\* The goroutines that call an eviction token.
Evictors == {"e1", "e2"}
\* An EvictionToken: the descriptor it was made with, the key and the
\* direction its eviction closure holds, and its sync.Once; runs and calls
\* count the runs of the closure and the calls of EvictAndReplace.
NoToken == [prevDesc |-> Nil, key |-> KeyMin, inverted |-> FALSE, once |-> "new",
            runs |-> 0, calls |-> 0]
\* makeEvictionToken, with the closure of a cache hit
makeEvictionToken(desc, key, inverted) ==
    [NoToken EXCEPT !.prevDesc = Ptr(desc), !.key = key, !.inverted = inverted]
\* What a reader of the cache saw last.
NoRead == [key |-> KeyMin, desc |-> Nil, torn |-> FALSE]
\* The goroutines that look a key up.
Lookupers == {"l1", "l2"}
\* A goroutine in lookupRangeDescriptorInternal: where it is, the key and
\* direction it looks up, the descriptor of the token it passed, the flight
\* it waits for, the result it got; retried says a result that did not
\* contain the key sent it round the loop.
NoLookup == [pc |-> "idle", key |-> KeyMin, useReverseScan |-> FALSE, prevDesc |-> Nil,
             leader |-> Nil, desc |-> Nil, err |-> FALSE, shared |-> FALSE, retried |-> FALSE]
\* NewRangeDescriptorCache
NewRangeDescriptorCache ==
    [cache |-> EmptyCache, call |-> NoCacheCall,
     writer |-> Nil,
     token |-> NoToken,
     evictor |-> [t \in Evictors |-> [pc |-> "idle", newDescs |-> <<>>]],
     read |-> NoRead,
     lookup |-> [t \in Lookupers |-> NoLookup],
     flight |-> [t \in Lookupers |-> Nil]]

\* The storage batch of a new replicaAppBatch: not closed, Close not called.
NeverClosed == [batch |-> 0, calls |-> 0]

\* The ephemeral batch before it is made, and once it is closed.
ZeroEphemeralBatch == [r |-> Nil, state |-> ZeroReplicaState, cmd |-> NoCmd]

\* No read is under way.
NoReader == [pc |-> "idle", ts |-> 0, snapshot |-> Nil, valid |-> FALSE]

\* The state once the replica rr and its engine are loaded.
InitOf(rr, eng) ==
    /\ raftClosedTimestampAssertionsEnabled \in BOOLEAN
    /\ proc = "running"
    /\ r = rr
    /\ engine = eng
    /\ sm = [stats |-> ZeroStateMachineStats, nonTrivial |-> FALSE]
    /\ b = ZeroBatch
    /\ call = "idle"
    /\ err = "none"
    /\ cmdIn = NoCmd
    /\ cmd = NoCmd
    /\ prev = ZeroBatch
    /\ prevR = rr
    /\ fx = <<>>
    /\ peer = PeerOf(rr)
    /\ envIn = NoEnv
    /\ log = <<>>
    /\ disk = [states |-> << eng.kv >>, cuts |-> {}, crashes |-> 0, lost |-> FALSE]
    /\ mb = ZeroEphemeralBatch
    /\ closes = NeverClosed
    /\ rdc = NewRangeDescriptorCache
    /\ reader = NoReader

Init == \E gc \in {1} : InitOf(InitialReplica(gc), InitialEngine(gc))

Idle == proc = "running" /\ call = "idle"

\* replicaStateMachine.NewBatch: the batch is bound to the replica and to a
\* fresh engine batch, its view copied from the replica.
NewBatch ==
    /\ Idle
    /\ b.r = Nil
    /\ r.destroyStatus = "destroyReasonAlive"
    /\ sm.stats.entriesProcessed < MaxEntries
    /\ b' = [ZeroBatch EXCEPT !.r = Ptr("r"),
                              !.batch = Ptr(<<>>),
                              !.state = r.state,
                              !.closedTimestampSetter = r.closedTimestampSetter]
    /\ sm' = [sm EXCEPT !.nonTrivial = FALSE]
    /\ closes' = NeverClosed
    /\ UNCHANGED <<reader, rdc, mb, log, disk, envIn, peer, raftClosedTimestampAssertionsEnabled, proc, r, engine,
                   call, err, cmdIn, cmd, prev, prevR, fx>>

\* storage.Engine.IngestExternalFiles: the files are in the engine at once.
IngestExternalFiles(eng, files) == [eng EXCEPT !.kv = ApplyOps(@, files)]

\* replicaAppBatch.Stage, of one of the inputs.
StageOf(inputs) ==
    /\ Idle
    /\ b.r # Nil
    /\ b.batch # Nil
    /\ ~sm.nonTrivial
    /\ sm.stats.entriesProcessed + b.entries < MaxEntries
    /\ \E in \in inputs :
          /\ IsTrivial(in.cmd) \/ b.entries = 0
          /\ LET c == in.cmd
                 f == StageFrame(b, r, c, in.env) IN
                /\ b' = f.b
                /\ r' = f.r
                /\ cmd' = f.cmd
                /\ err' = f.err
                /\ fx' = f.fx
                /\ proc' = IF f.fatal THEN "dead" ELSE IF f.err # "none" THEN "failed" ELSE "running"
                /\ engine' = IngestExternalFiles(engine, f.ingested)
                /\ cmdIn' = c
                /\ envIn' = in.env
                /\ sm' = [sm EXCEPT !.nonTrivial = ~IsTrivial(c)]
    /\ call' = "Stage"
    /\ prev' = b
    /\ prevR' = r
    /\ UNCHANGED <<reader, rdc, closes, mb, log, disk, peer, raftClosedTimestampAssertionsEnabled>>

\* replicaAppBatch.Stage
Stage == StageOf(StageInputs(b.state))

----------------------------------------------------------------------------
(* replicaAppBatch.ApplyToStateMachine *)

\* A slip: the applied-state key is put in front of the staged writes.
addAppliedStateKeyFirst(bb) ==
    [bb EXCEPT !.batch = Ptr(<< Put("RangeAppliedState", AppliedStateOf(bb.state)) >> \o Deref(@))]

\* A slip: the applied-state key is left out of the batch.
addAppliedStateKeyOmitted(bb) == bb

\* addAppliedStateKeyToBatch: the applied-state key of the batch's view.
addAppliedStateKeyToBatch(bb) ==
    [bb EXCEPT !.batch = Ptr(Deref(@) \o << Put("RangeAppliedState", AppliedStateOf(bb.state)) >>)]

\* A slip: no commit is synced.
commitNeverSynced(bb) == FALSE

\* ApplyToStateMachine, whether the commit is synced.
commitSync(bb) == bb.changeRemovesReplica

\* hlc.Timestamp.Forward
Forward(ts, other) == IF ts < other THEN other ELSE ts

\* enginepb.MVCCStats.Total
Total(ms) == ms.ValBytes

\* A slip: the sanity check does not ask whether the assertions are enabled.
replicaClosedTimestampRegressesUnasked(existingClosed, newClosed) ==
    ~IsEmptyTS(newClosed) /\ newClosed < existingClosed

\* ApplyToStateMachine, the sanity check of the replica's closed timestamp.
replicaClosedTimestampRegresses(existingClosed, newClosed) ==
    ~IsEmptyTS(newClosed) /\ newClosed < existingClosed /\ raftClosedTimestampAssertionsEnabled

\* A slip: the batch's closed timestamp is assigned, not forwarded to.
publishClosedTimestampAssigns(existingClosed, newClosed) == newClosed

\* A slip: the replica keeps the closed timestamp it had.
publishClosedTimestampNever(existingClosed, newClosed) == existingClosed

\* ApplyToStateMachine, the closed timestamp the replica publishes.
publishClosedTimestamp(existingClosed, newClosed) == Forward(existingClosed, newClosed)

\* A slip: the update handler is called whenever the batch has a closed
\* timestamp.
closedTimestampForwardedIfSet(existingClosed, newClosed) == ~IsEmptyTS(newClosed)

\* ApplyToStateMachine, what Forward returns: whether the replica's closed
\* timestamp advanced.
closedTimestampForwarded(existingClosed, newClosed) == existingClosed < newClosed

\* A slip: the replica's lock is left held.
muKept(rr) == rr

\* ApplyToStateMachine, r.mu.Unlock
muUnlock(rr) == [rr EXCEPT !.muHeld = FALSE]

\* A slip: the view's applied index is published although the commit failed.
commitFailedAfterPublishing(f, bb) ==
    [f EXCEPT !.b = bb, !.err = "unable to commit Raft entry batch",
              !.r.state.RaftAppliedIndex = bb.state.RaftAppliedIndex]

\* ApplyToStateMachine, the return on a failed commit: the batch holds the
\* applied-state key by then, nothing else has changed.
commitFailed(f, bb) == [f EXCEPT !.b = bb, !.err = "unable to commit Raft entry batch"]

\* The outcome of ApplyToStateMachine; putFails and commitFails say whether the
\* engine refuses the applied-state key or the commit, needs names the queues
\* the replica asks for.
ApplyFrame(bb, rr, eng, stats, putFails, commitFails, needs) ==
    LET start == [b |-> bb, r |-> rr, engine |-> eng, stats |-> stats, err |-> "none", fx |-> <<>>] IN
    IF ~bb.changeRemovesReplica /\ putFails
    THEN [start EXCEPT !.err = "unable to set range applied state"]
    ELSE
    LET b1 == IF ~bb.changeRemovesReplica THEN addAppliedStateKeyToBatch(bb) ELSE bb
        sync == commitSync(b1)
    IN
    IF commitFails
    THEN commitFailed(start, b1)
    ELSE
    LET ops == Deref(b1.batch)
        eng1 == [kv |-> ApplyOps(eng.kv, ops), last |-> [ops |-> ops, sync |-> sync]]
        b2 == [b1 EXCEPT !.batch = Nil]
        existingClosed == rr.state.RaftClosedTimestamp
        newClosed == b2.state.RaftClosedTimestamp
        r1 == [rr EXCEPT !.muHeld = TRUE,
                         !.state.RaftAppliedIndex = b2.state.RaftAppliedIndex,
                         !.state.RaftAppliedIndexTerm = b2.state.RaftAppliedIndexTerm,
                         !.state.LeaseAppliedIndex = b2.state.LeaseAppliedIndex]
        committed == [start EXCEPT !.b = b2, !.engine = eng1,
                                   !.fx = << "Commit", "batch.Close", "mu.Lock" >>]
    IN
    IF replicaClosedTimestampRegresses(existingClosed, newClosed)
    THEN [committed EXCEPT !.r = r1, !.err = "AssertionFailed: raft closed timestamp regression"]
    ELSE
    LET closedTimestampUpdated == closedTimestampForwarded(existingClosed, newClosed)
        r2 == muUnlock([r1 EXCEPT
                         !.closedTimestampSetter = b2.closedTimestampSetter,
                         !.state.RaftClosedTimestamp = publishClosedTimestamp(@, newClosed),
                         !.state.Stats = b2.state.Stats,
                         !.largestPreviousMaxRangeSizeBytes =
                             IF @ > 0 /\ Total(b2.state.Stats) < rr.conf.RangeMaxBytes THEN 0 ELSE @])
        stats1 == [stats EXCEPT !.entriesProcessed = @ + b2.entries,
                                !.entriesProcessedBytes = @ + b2.entryBytes,
                                !.numEmptyEntries = @ + b2.emptyEntries,
                                !.batchesProcessed = @ + 1,
                                !.followerNumEntries = @ + b2.followerStoreWriteBytes.NumEntries]
    IN [committed EXCEPT
          !.r = r2,
          !.stats = stats1,
          !.fx = @ \o << "mu.Unlock" >>
                   \o (IF closedTimestampUpdated THEN << "handleClosedTimestampUpdate" >> ELSE <<>>)
                   \o (IF "split" \in needs THEN << "splitQueue.MaybeAddAsync" >> ELSE <<>>)
                   \o (IF "merge" \in needs THEN << "mergeQueue.MaybeAddAsync" >> ELSE <<>>)
                   \o (IF "truncate" \in needs THEN << "raftLogQueue.MaybeAddAsync" >> ELSE <<>>)
                   \o << "recordStatsOnCommit" >>]

QueueNeeds == { {}, {"split", "truncate"}, {"merge"} }

ApplyToStateMachine ==
    /\ Idle
    /\ b.r # Nil
    /\ b.batch # Nil
    /\ b.entries > 0
    /\ \E putFails \in BOOLEAN, commitFails \in BOOLEAN, needs \in QueueNeeds :
          LET f == ApplyFrame(b, r, engine, sm.stats, putFails, commitFails, needs) IN
             /\ b' = f.b
             /\ r' = f.r
             /\ engine' = f.engine
             /\ sm' = [sm EXCEPT !.stats = f.stats]
             /\ err' = f.err
             /\ fx' = f.fx
             /\ proc' = IF f.err # "none" THEN "failed" ELSE "running"
             /\ closes' = [closes EXCEPT !.batch = @ + IF f.b.batch = Nil THEN 1 ELSE 0]
    /\ call' = "ApplyToStateMachine"
    /\ prev' = b
    /\ prevR' = r
    /\ UNCHANGED <<reader, rdc, mb, log, disk, envIn, peer, raftClosedTimestampAssertionsEnabled, cmdIn, cmd>>

\* A slip: Close closes the storage batch whether or not the commit has.
closeBatchAlways(bb, cl) ==
    [b |-> ZeroBatch, closes |-> [batch |-> cl.batch + 1, calls |-> cl.calls + 1]]

\* replicaAppBatch.Close: the storage batch is closed if the batch still
\* holds it, and the batch is zeroed.
closeBatch(bb, cl) ==
    [b |-> ZeroBatch,
     closes |-> [batch |-> cl.batch + IF bb.batch # Nil THEN 1 ELSE 0, calls |-> cl.calls + 1]]

\* replicaAppBatch.Close
Close ==
    /\ proc \in {"running", "failed"}
    /\ call = "idle"
    /\ b # ZeroBatch
    /\ b' = closeBatch(b, closes).b
    /\ closes' = closeBatch(b, closes).closes
    /\ UNCHANGED <<reader, rdc, mb, log, disk, envIn, peer, raftClosedTimestampAssertionsEnabled, proc, r, sm, engine,
                   call, err, cmdIn, cmd, prev, prevR, fx>>

\* The call returns to the outer loop, which is done with what it returned.
Return ==
    /\ call # "idle"
    /\ proc # "dead"
    /\ call' = "idle"
    /\ err' = "none"
    /\ cmdIn' = NoCmd
    /\ cmd' = NoCmd
    /\ prev' = ZeroBatch
    /\ prevR' = r
    /\ fx' = <<>>
    /\ envIn' = NoEnv
    /\ UNCHANGED <<reader, rdc, closes, mb, log, disk, peer, raftClosedTimestampAssertionsEnabled, proc, r, sm, engine, b>>

Next == NewBatch \/ Stage \/ ApplyToStateMachine \/ Close \/ Return

Spec == Init /\ [][Next]_vars

----------------------------------------------------------------------------
(* The same replica fed commands that fire the pre-apply triggers.         *)

\* Commands with a trigger, and trivial ones to go between them.
TriggerCmds(st) ==
    GCThresholdCmds(st) \cup AddSSTableCmds(st)
      \cup { [c EXCEPT !.MaxLeaseIndex = st.LeaseAppliedIndex] : c \in AddSSTableCmds(st) }
      \cup { c \in ChangeReplicasCmds(st) : ~c.IsLocal }
      \cup { c \in ClosedTimestampCmds(st) :
                 /\ ~c.IsLocal
                 /\ c.ClosedTimestamp \in {Nil, Ptr(MaxTS)}
                 /\ c.ReplicatedEvalResult.WriteTimestamp # 0 }

TriggerInputs(st) ==
    { [cmd |-> c, env |-> Env("none", FALSE)] : c \in TriggerCmds(st) }
      \cup { [cmd |-> c, env |-> Env("none", TRUE)] : c \in ChangeReplicasCmds(st) }

\* replicaAppBatch.Stage
StageTrigger == StageOf(TriggerInputs(b.state))

NextTriggers == NewBatch \/ StageTrigger \/ ApplyToStateMachine \/ Close \/ Return

SpecTriggers == Init /\ [][NextTriggers]_vars

----------------------------------------------------------------------------
(* Two replicas of the range apply the same log.  Each command is staged   *)
(* by both; this replica cuts the log into batches as it pleases while the *)
(* other applies every entry in a batch of its own, and a command is local *)
(* on at most the replica that proposed it.                                *)

\* The commands of the log applied to both replicas.
MaxPairEntries == 3

WithLocality(c, loc) == [c EXCEPT !.IsLocal = loc[1], !.AppliesTimestampCache = loc[2]]

\* The locality of a command on the two replicas: one replica at most
\* proposed it, and it is then an intent write there.
PairLocalities ==
    { << <<FALSE, FALSE>>, <<FALSE, FALSE>> >>,
      << <<TRUE, TRUE>>, <<FALSE, FALSE>> >>,
      << <<FALSE, FALSE>>, <<TRUE, TRUE>> >> }

\* The log entries: one the predicate rejects, ones that carry a closed
\* timestamp and a stats delta, and changes of replicas that remove either store.
PairCmds(st) ==
    { NewCmd(st.RaftAppliedIndex + 1, 1, st.LeaseAppliedIndex + 1, seq, cts,
             WriteBatchAt(st.RaftAppliedIndex + 1), Nil,
             Result(MaxTS, SomeDelta, Nil, Nil), FALSE, FALSE, 1)
        : seq \in {st.Lease.Sequence, st.Lease.Sequence + 1}, cts \in Pointers(Timestamps \ {0}) }
    \cup { NewCmd(st.RaftAppliedIndex + 1, 1, st.LeaseAppliedIndex + 1, st.Lease.Sequence,
                  Nil, Nil, Nil, Result(MaxTS, ZeroStats, Nil, Change({store})), FALSE, FALSE, 1)
             : store \in {ThisStore, OtherStore} }

PairIdle == proc = "running" /\ call = "idle"

\* replicaStateMachine.NewBatch
OpenBatch(rr) ==
    [ZeroBatch EXCEPT !.r = Ptr("r"),
                      !.batch = Ptr(<<>>),
                      !.state = rr.state,
                      !.closedTimestampSetter = rr.closedTimestampSetter]

\* The batch a replica goes on with once it has committed one: the next
\* one, unless the commit failed or removed the replica.
NextBatch(f) ==
    IF f.err = "none" /\ f.r.destroyStatus = "destroyReasonAlive" THEN OpenBatch(f.r) ELSE ZeroBatch

\* Both replicas open their first batch.
PairNewBatch ==
    /\ PairIdle
    /\ b.r = Nil /\ r.state.RaftAppliedIndex = 1
    /\ peer.b.r = Nil /\ peer.r.state.RaftAppliedIndex = 1
    /\ b' = OpenBatch(r)
    /\ peer' = [peer EXCEPT !.b = OpenBatch(peer.r)]
    /\ UNCHANGED <<reader, rdc, closes, mb, log, disk, envIn, raftClosedTimestampAssertionsEnabled, proc, r, sm, engine,
                   call, err, cmdIn, cmd, prev, prevR, fx>>

\* replicaAppBatch.Stage of the next log entry, on both replicas.
PairStage ==
    /\ PairIdle
    /\ b.r # Nil /\ peer.b.r # Nil
    /\ ~sm.nonTrivial /\ ~peer.nonTrivial
    /\ b.state.RaftAppliedIndex <= MaxPairEntries
    /\ \E c \in PairCmds(b.state), loc \in PairLocalities :
          /\ IsTrivial(c) \/ b.entries = 0
          /\ LET f == StageFrame(b, r, WithLocality(c, loc[1]), Env("none", FALSE))
                 g == StageFrame(peer.b, peer.r, WithLocality(c, loc[2]), Env("none", FALSE))
             IN /\ b' = f.b
                /\ r' = f.r
                /\ cmd' = f.cmd
                /\ err' = f.err
                /\ fx' = f.fx
                /\ peer' = [peer EXCEPT !.b = g.b, !.r = g.r, !.cmd = g.cmd, !.err = g.err,
                                        !.nonTrivial = ~IsTrivial(c)]
                /\ proc' = IF f.fatal \/ g.fatal THEN "dead"
                           ELSE IF f.err # "none" \/ g.err # "none" THEN "failed"
                           ELSE "running"
                /\ cmdIn' = WithLocality(c, loc[1])
                /\ envIn' = Env("none", FALSE)
                /\ sm' = [sm EXCEPT !.nonTrivial = ~IsTrivial(c)]
    /\ call' = "PairStage"
    /\ prev' = b
    /\ prevR' = r
    /\ UNCHANGED <<reader, rdc, closes, mb, log, disk, raftClosedTimestampAssertionsEnabled, engine>>

\* Both calls of Stage return to their outer loops.  The other replica
\* applies every log entry in a batch of its own: ApplyToStateMachine and
\* Close, then the next NewBatch.
PairReturn ==
    /\ call = "PairStage"
    /\ proc = "running"
    /\ call' = "idle"
    /\ err' = "none"
    /\ cmdIn' = NoCmd
    /\ cmd' = NoCmd
    /\ prev' = ZeroBatch
    /\ prevR' = r
    /\ fx' = <<>>
    /\ envIn' = NoEnv
    /\ LET g == ApplyFrame(peer.b, peer.r, engine, sm.stats, FALSE, FALSE, {}) IN
          /\ peer' = [peer EXCEPT !.b = NextBatch(g), !.r = g.r, !.cmd = NoCmd,
                                  !.nonTrivial = FALSE]
          /\ proc' = IF g.err # "none" THEN "failed" ELSE "running"
    /\ UNCHANGED <<reader, rdc, closes, mb, log, disk, raftClosedTimestampAssertionsEnabled, r, sm, engine, b>>

\* This replica cuts the log into batches as it pleases:
\* ApplyToStateMachine and Close, then the next NewBatch.
PairCommit ==
    /\ PairIdle
    /\ b.r # Nil
    /\ b.entries > 0
    /\ LET f == ApplyFrame(b, r, engine, sm.stats, FALSE, FALSE, {}) IN
          /\ b' = NextBatch(f)
          /\ r' = f.r
          /\ engine' = f.engine
          /\ sm' = [stats |-> f.stats, nonTrivial |-> FALSE]
          /\ proc' = IF f.err # "none" THEN "failed" ELSE "running"
    /\ UNCHANGED <<reader, rdc, closes, mb, log, disk, envIn, raftClosedTimestampAssertionsEnabled, call, err, cmdIn, cmd,
                   prev, prevR, fx, peer>>

NextPair == PairNewBatch \/ PairStage \/ PairReturn \/ PairCommit

SpecPair == Init /\ [][NextPair]_vars

----------------------------------------------------------------------------
(* The replica applies a committed raft log, cut into batches as the outer *)
(* loop pleases, over crashes and restarts.  A commit that is not synced   *)
(* may or may not survive a crash; the commits that do are a prefix.  The  *)
(* entry at position p of the log has raft index p + 1.                    *)

\* The entries of the log.
MaxLog == 3
\* The crashes of a behaviour.
MaxCrashes == 1

\* The log entries: writes that carry a closed timestamp or none, the
\* ingestion of an SSTable, the removal of the replica.
LogCmds(st) ==
    { NewCmd(st.RaftAppliedIndex + 1, 1, st.LeaseAppliedIndex + 1, st.Lease.Sequence, cts,
             WriteBatchAt(st.RaftAppliedIndex + 1), Nil,
             Result(MaxTS, SomeDelta, Nil, Nil), FALSE, FALSE, 1)
        : cts \in Pointers(Timestamps \ {0}) }
    \cup { c \in AddSSTableCmds(st) : ~Deref(c.ReplicatedEvalResult.AddSSTable).AtWriteTimestamp }
    \cup { c \in ChangeReplicasCmds(st) :
              /\ ~c.IsLocal /\ c.WriteBatch # Nil
              /\ ThisStore \notin Deref(c.ReplicatedEvalResult.ChangeReplicas).Desc }
\* The same, and an entry the predicate rejects.
ReplayCmds(st) ==
    LogCmds(st)
    \cup { NewCmd(st.RaftAppliedIndex + 1, 1, st.LeaseAppliedIndex, st.Lease.Sequence, Ptr(MaxTS),
                  WriteBatchAt(st.RaftAppliedIndex + 1), Nil,
                  Result(MaxTS, SomeDelta, Nil, Nil), FALSE, FALSE, 1) }

\* The position in the log of the entry the batch's view expects next.
NextPosition(bb) == bb.state.RaftAppliedIndex

\* replicaStateMachine.NewBatch
LogNewBatch ==
    /\ Idle
    /\ b.r = Nil
    /\ r.destroyStatus = "destroyReasonAlive"
    /\ r.state.RaftAppliedIndex <= Len(log) \/ Len(log) < MaxLog
    /\ b' = OpenBatch(r)
    /\ sm' = [sm EXCEPT !.nonTrivial = FALSE]
    /\ UNCHANGED <<reader, rdc, closes, mb, raftClosedTimestampAssertionsEnabled, proc, r, engine, call, err, cmdIn,
                   cmd, prev, prevR, fx, peer, envIn, log, disk>>

\* The outcome of Stage for the next entry of the log.
LogStaged(c) ==
    LET f == StageFrame(b, r, c, NoEnv) IN
    /\ b' = f.b
    /\ r' = f.r
    /\ engine' = IngestExternalFiles(engine, f.ingested)
    /\ disk' = [disk EXCEPT !.states = [i \in DOMAIN @ |-> ApplyOps(@[i], f.ingested)]]
    /\ proc' = IF f.fatal THEN "dead" ELSE IF f.err # "none" THEN "failed" ELSE "running"
    /\ sm' = [sm EXCEPT !.nonTrivial = ~IsTrivial(c)]

\* replicaAppBatch.Stage of the next entry: one applied before, or a new one
\* that raft appends to the log.
LogStageOf(cmds) ==
    /\ Idle
    /\ b.r # Nil
    /\ ~sm.nonTrivial
    /\ IF NextPosition(b) <= Len(log)
       THEN /\ IsTrivial(log[NextPosition(b)]) \/ b.entries = 0
            /\ LogStaged(log[NextPosition(b)])
            /\ UNCHANGED log
       ELSE /\ Len(log) < MaxLog
            /\ \E c \in cmds :
                  /\ IsTrivial(c) \/ b.entries = 0
                  /\ LogStaged(c)
                  /\ log' = Append(log, c)
    /\ UNCHANGED <<reader, rdc, closes, mb, raftClosedTimestampAssertionsEnabled, call, err, cmdIn, cmd, prev, prevR,
                   fx, peer, envIn>>

LogStage == LogStageOf(LogCmds(b.state))
ReplayStage == LogStageOf(ReplayCmds(b.state))

\* replicaAppBatch.ApplyToStateMachine and Close.  A synced commit is all a
\* crash can leave; one that is not synced is one more state it may leave.
LogCommit ==
    /\ Idle
    /\ b.r # Nil
    /\ b.entries > 0
    /\ LET f == ApplyFrame(b, r, engine, sm.stats, FALSE, FALSE, {}) IN
          /\ b' = ZeroBatch
          /\ r' = f.r
          /\ engine' = f.engine
          /\ disk' = [disk EXCEPT !.states = IF f.engine.last.sync THEN << f.engine.kv >>
                                             ELSE Append(@, f.engine.kv),
                                  !.cuts = @ \cup {b.state.RaftAppliedIndex - 1}]
          /\ sm' = [stats |-> f.stats, nonTrivial |-> FALSE]
          /\ proc' = IF f.err # "none" THEN "failed" ELSE "running"
    /\ UNCHANGED <<reader, rdc, closes, mb, raftClosedTimestampAssertionsEnabled, call, err, cmdIn, cmd, prev, prevR,
                   fx, peer, envIn, log>>

\* The replica as it is loaded from the engine when the process starts: its
\* applied state is what the applied-state key holds; a replica whose keys
\* are gone is removed.
Restart(rr, kv) ==
    IF kv["RangeAppliedState"] = Nil
    THEN [rr EXCEPT !.destroyStatus = "destroyReasonRemoved", !.muHeld = FALSE]
    ELSE LET as == Deref(kv["RangeAppliedState"]) IN
         [rr EXCEPT !.state.RaftAppliedIndex = as[1],
                    !.state.LeaseAppliedIndex = as[2],
                    !.state.RaftAppliedIndexTerm = as[3],
                    !.state.Stats = [KeyCount |-> as[4], ValBytes |-> as[5]],
                    !.state.RaftClosedTimestamp = as[6],
                    !.closedTimestampSetter = ZeroSetter,
                    !.destroyStatus = "destroyReasonAlive",
                    !.largestPreviousMaxRangeSizeBytes = 0,
                    !.muHeld = FALSE]

\* The commits, of those after the positions in cuts, that an engine holds.
Landed(cuts, kv) ==
    IF kv["RangeAppliedState"] = Nil THEN cuts
    ELSE { p \in cuts : p + 1 <= Deref(kv["RangeAppliedState"])[1] }

\* The process crashes, at any point between two calls, and starts again:
\* the batch is gone with the memory, the engine is left in one of the states
\* the disk may hold.
Crash ==
    /\ proc \in {"running", "failed"}
    /\ call = "idle"
    /\ disk.crashes < MaxCrashes
    /\ \E i \in DOMAIN disk.states :
          /\ engine' = [kv |-> disk.states[i], last |-> NoCommit]
          /\ r' = Restart(r, disk.states[i])
          /\ disk' = [states |-> << disk.states[i] >>,
                      cuts |-> Landed(disk.cuts, disk.states[i]),
                      crashes |-> disk.crashes + 1,
                      lost |-> (i < Len(disk.states) \/ b.entries > 0)]
    /\ b' = ZeroBatch
    /\ proc' = "running"
    /\ sm' = [stats |-> ZeroStateMachineStats, nonTrivial |-> FALSE]
    /\ UNCHANGED <<reader, rdc, closes, mb, raftClosedTimestampAssertionsEnabled, call, err, cmdIn, cmd, prev, prevR,
                   fx, peer, envIn, log>>

NextLog == LogNewBatch \/ LogStage \/ LogCommit \/ Crash

SpecLog == Init /\ [][NextLog]_vars

\* The same with no crash.
NextReplay == LogNewBatch \/ ReplayStage \/ LogCommit

SpecReplay == Init /\ [][NextReplay]_vars

----------------------------------------------------------------------------
(* The ephemeral batch decides, ahead of the application, which of a       *)
(* sequence of commands will be rejected; the replicaAppBatch stages the   *)
(* same commands from the same view.                                       *)

\* The commands of a sequence.
MaxSequence == 3

\* ephemeralReplicaAppBatch.Stage: the predicate, on the batch's view, then
\* the view's lease-applied index.  A slip: the index is left alone.
ephemeralStageKeepsIndex(m, c) ==
    [m EXCEPT !.cmd = shouldApplyCommand(c, m.state)]

\* A slip: the ephemeral batch advances its applied index as the real one does.
ephemeralStageAdvancesIndex(m, c) ==
    LET checked == shouldApplyCommand(c, m.state) IN
    [m EXCEPT !.state.LeaseAppliedIndex = checked.LeaseIndex,
              !.state.RaftAppliedIndex = c.Index,
              !.cmd = checked]

\* ephemeralReplicaAppBatch.Stage
ephemeralStage(m, c) ==
    LET checked == shouldApplyCommand(c, m.state) IN
    [m EXCEPT !.state.LeaseAppliedIndex = checked.LeaseIndex,
              !.cmd = checked]

\* The replicas the two batches may start from: at the lease-applied index
\* zero or later, under either lease.
EphemeralViews ==
    { [InitialReplicaState(1) EXCEPT !.LeaseAppliedIndex = lai, !.Lease.Sequence = seq]
      : lai \in {0, 1}, seq \in LeaseSequences }

InitEphemeral ==
    \E view \in EphemeralViews :
        InitOf([InitialReplica(1) EXCEPT !.state = view],
               [kv |-> InitialKV(view), last |-> NoCommit])

\* Commands at the next raft index whose lease index and lease sequence the
\* predicate may or may not accept, with a write and a closed timestamp.
EphemeralCmds(st) ==
    { NewCmd(st.RaftAppliedIndex + 1, 1, mli, seq, cts, WriteBatchAt(st.RaftAppliedIndex + 1), Nil,
             Result(MaxTS, SomeDelta, Nil, Nil), local, FALSE, 1)
      : mli \in LeaseIndexesAround(st.LeaseAppliedIndex), seq \in LeaseSequences,
        cts \in {Nil, Ptr(1)}, local \in BOOLEAN }

\* replicaStateMachine.NewBatch and NewEphemeralBatch: the two batches take
\* their view from the replica.
EphemeralNewBatch ==
    /\ Idle
    /\ b.r = Nil
    /\ mb.r = Nil
    /\ b' = OpenBatch(r)
    /\ mb' = [r |-> Ptr("r"), state |-> r.state, cmd |-> NoCmd]
    /\ UNCHANGED <<reader, rdc, closes, raftClosedTimestampAssertionsEnabled, proc, r, sm, engine, call, err, cmdIn,
                   cmd, prev, prevR, fx, peer, envIn, log, disk>>

\* The same command is staged in the two batches.
EphemeralStage ==
    /\ Idle
    /\ b.r # Nil
    /\ mb.r # Nil
    /\ b.entries < MaxSequence
    /\ \E c \in EphemeralCmds(b.state) :
          LET f == StageFrame(b, r, c, NoEnv) IN
          /\ cmdIn' = c
          /\ prev' = b
          /\ b' = f.b
          /\ r' = f.r
          /\ cmd' = f.cmd
          /\ err' = f.err
          /\ proc' = IF f.fatal THEN "dead" ELSE IF f.err # "none" THEN "failed" ELSE "running"
          /\ mb' = ephemeralStage(mb, c)
    /\ UNCHANGED <<reader, rdc, closes, raftClosedTimestampAssertionsEnabled, sm, engine, call, prevR, fx, peer,
                   envIn, log, disk>>

\* ephemeralReplicaAppBatch.Close, and replicaAppBatch.Close with nothing
\* committed.
EphemeralClose ==
    /\ Idle
    /\ mb.r # Nil
    /\ b.entries > 0
    /\ mb' = ZeroEphemeralBatch
    /\ b' = ZeroBatch
    /\ UNCHANGED <<reader, rdc, closes, raftClosedTimestampAssertionsEnabled, proc, r, sm, engine, call, err, cmdIn,
                   cmd, prev, prevR, fx, peer, envIn, log, disk>>

\* The ephemeral batch alone, handed any command: well-indexed or not, with
\* a trigger or without.
EphemeralAloneCmds(st) ==
    EphemeralCmds(st) \cup BadIndexCmds(st) \cup GCThresholdCmds(st) \cup ChangeReplicasCmds(st)

\* replicaStateMachine.NewEphemeralBatch
NewEphemeralBatch ==
    /\ Idle
    /\ mb.r = Nil
    /\ mb' = [r |-> Ptr("r"), state |-> r.state, cmd |-> NoCmd]
    /\ UNCHANGED <<reader, rdc, closes, raftClosedTimestampAssertionsEnabled, proc, r, sm, engine, b, call, err,
                   cmdIn, cmd, prev, prevR, fx, peer, envIn, log, disk>>

\* ephemeralReplicaAppBatch.Stage, which returns the command and a nil
\* error; prev keeps the view the call found.
EphemeralStageAlone ==
    /\ Idle
    /\ mb.r # Nil
    /\ mb.state.LeaseAppliedIndex < MaxSequence
    /\ \E c \in EphemeralAloneCmds(mb.state) :
          /\ mb' = ephemeralStage(mb, c)
          /\ cmdIn' = c
          /\ cmd' = ephemeralStage(mb, c).cmd
    /\ call' = "ephemeralStage"
    /\ err' = "none"
    /\ fx' = <<>>
    /\ prev' = [ZeroBatch EXCEPT !.state = mb.state]
    /\ prevR' = r
    /\ UNCHANGED <<reader, rdc, closes, raftClosedTimestampAssertionsEnabled, proc, r, sm, engine, b, peer,
                   envIn, log, disk>>

\* ephemeralReplicaAppBatch.Close
EphemeralCloseAlone ==
    /\ Idle
    /\ mb.r # Nil
    /\ mb' = ZeroEphemeralBatch
    /\ UNCHANGED <<reader, rdc, closes, raftClosedTimestampAssertionsEnabled, proc, r, sm, engine, b, call, err,
                   cmdIn, cmd, prev, prevR, fx, peer, envIn, log, disk>>

NextEphemeralAlone == NewEphemeralBatch \/ EphemeralStageAlone \/ EphemeralCloseAlone \/ Return

SpecEphemeralAlone == InitEphemeral /\ [][NextEphemeralAlone]_vars

NextEphemeral == EphemeralNewBatch \/ EphemeralStage \/ EphemeralClose

SpecEphemeral == InitEphemeral /\ [][NextEphemeral]_vars

----------------------------------------------------------------------------
(* The batch is closed, and closed again.                                  *)

\* The calls of Close on a batch.
MaxCloses == 2

\* What Stage is given: commands that are accepted, rejected, that fail an
\* assertion or, when the engine refuses the write batch, the staging.
CloseInputs(st) ==
    { [cmd |-> c, env |-> NoEnv]
        : c \in { PlainCmd(st, st.LeaseAppliedIndex + d, st.Lease.Sequence, MaxTS) : d \in {0, 1} } }
    \cup { [cmd |-> c, env |-> Env(fault, FALSE)]
             : c \in { x \in ClosedTimestampCmds(st) :
                          /\ ~x.IsLocal /\ x.ClosedTimestamp # Nil
                          /\ x.ReplicatedEvalResult.WriteTimestamp = MaxTS },
               fault \in {"none", "applyBatch"} }
    \cup { [cmd |-> c, env |-> NoEnv]
             : c \in { x \in ChangeReplicasCmds(st) : ~x.IsLocal /\ x.WriteBatch # Nil } }

StageToClose == StageOf(CloseInputs(b.state))

\* replicaAppBatch.Close, called on a batch that is closed already.
CloseAgain ==
    /\ proc \in {"running", "failed"}
    /\ call = "idle"
    /\ b = ZeroBatch
    /\ closes.calls \in 1 .. MaxCloses - 1
    /\ b' = closeBatch(b, closes).b
    /\ closes' = closeBatch(b, closes).closes
    /\ UNCHANGED <<reader, rdc, mb, log, disk, envIn, peer, raftClosedTimestampAssertionsEnabled, proc, r, sm,
                   engine, call, err, cmdIn, cmd, prev, prevR, fx>>

NextClose == NewBatch \/ StageToClose \/ ApplyToStateMachine \/ Close \/ CloseAgain \/ Return

SpecClose == Init /\ [][NextClose]_vars

----------------------------------------------------------------------------
(* The range descriptor cache, one call at a time.  The write lock is held *)
(* from the first line of a call to its return, so that a call is a step.  *)

\* The descriptors of one call of InsertRangeDescriptors.
MaxInsert == 2

\* The variables of the replica and its batches, which a read leaves alone,
\* and with the read the variables the cache leaves alone.
applyVars == <<raftClosedTimestampAssertionsEnabled, proc, r, sm, engine, b,
               call, err, cmdIn, cmd, prev, prevR, fx, peer, envIn, log, disk, mb, closes>>
batchVars == <<applyVars, reader>>

\* The arguments of a call of InsertRangeDescriptors: descriptors that the
\* caller holds by value.
InsertArgs ==
    UNION { [1 .. n -> DescriptorValues] : n \in 1 .. MaxInsert }

\* RangeDescriptorCache.InsertRangeDescriptors
InsertRangeDescriptors ==
    /\ \E rs \in InsertArgs :
          rdc' = [rdc EXCEPT !.cache = insertRangeDescriptorsLocked(rdc.cache, rs),
                             !.call = [NoCacheCall EXCEPT !.op = "Insert", !.before = rdc.cache,
                                                          !.rs = rs]]
    /\ UNCHANGED batchVars

\* What a caller may have seen: nothing, a descriptor of the cache, or one
\* the cache does not hold.
SeenDescs(cache) ==
    {Nil} \cup { cache[e] : e \in { k \in CacheKeys : cache[k] # Nil } }
          \cup { Ptr(d) : d \in DescriptorValues }

\* RangeDescriptorCache.EvictCachedRangeDescriptor
EvictCachedRangeDescriptor ==
    /\ \E descKey \in RKeys, seenDesc \in SeenDescs(rdc.cache), inverted \in BOOLEAN :
          rdc' = [rdc EXCEPT !.cache = evictCachedRangeDescriptorLocked(@, descKey, seenDesc, inverted),
                             !.call = [NoCacheCall EXCEPT !.op = "Evict", !.before = rdc.cache,
                                                          !.descKey = descKey,
                                                          !.seenDesc = seenDesc,
                                                          !.inverted = inverted]]
    /\ UNCHANGED batchVars

\* RangeDescriptorCache.Clear
ClearCache ==
    /\ rdc.cache # EmptyCache
    /\ rdc' = [rdc EXCEPT !.cache = EmptyCache, !.call = [NoCacheCall EXCEPT !.op = "Clear",
                                                                         !.before = rdc.cache]]
    /\ UNCHANGED batchVars

NextCache == InsertRangeDescriptors \/ EvictCachedRangeDescriptor \/ ClearCache

SpecCache == Init /\ [][NextCache]_vars

----------------------------------------------------------------------------
(* An eviction token of the cache, called from two goroutines while a      *)
(* third reads the cache.  EvictAndReplace goes step by step: the Once,    *)
(* the write lock, the eviction, the replacement, the unlock.              *)

\* The calls of EvictAndReplace on a token.
MaxEvictCalls == 3

\* A slip: the Once lets the closure run again once it has run.
doOnceUnlessRunning(once) == once # "running"

\* sync.Once.Do: whether the function is to run.
doOnce(once) == once = "new"

\* The descriptors a token is called with: none, or the two halves of a split.
NewDescs ==
    { <<>>, << Descriptor(0, 2, 2, TRUE, 0), Descriptor(2, 4, 2, TRUE, 0) >> }

EvictorsIdle == \A t \in Evictors : rdc.evictor[t].pc = "idle"

\* InsertRangeDescriptors, of the range before its split.
TokenInsert ==
    /\ EvictorsIdle
    /\ rdc.writer = Nil
    /\ rdc.cache = EmptyCache
    /\ rdc' = [rdc EXCEPT !.cache = insertRangeDescriptorsLocked(@, << Descriptor(0, 4, 1, TRUE, 0) >>)]
    /\ UNCHANGED batchVars

\* tryLookupRangeDescriptor, the key is in the cache: the descriptor is
\* returned with a token that evicts it.
TokenLookup ==
    /\ EvictorsIdle
    /\ rdc.writer = Nil
    /\ rdc.token.once # "running"
    /\ \E key \in RKeys, inverted \in BOOLEAN :
          LET entry == getCachedRangeDescriptorLocked(rdc.cache, key, inverted) IN
          /\ entry # Nil
          /\ rdc' = [rdc EXCEPT !.token = makeEvictionToken(Deref(rdc.cache[Deref(entry)]), key, inverted)]
    /\ UNCHANGED batchVars

\* EvictionToken.Evict and EvictAndReplace are called.
EvictAndReplace(t) ==
    /\ rdc.evictor[t].pc = "idle"
    /\ rdc.token.prevDesc # Nil
    /\ rdc.token.calls < MaxEvictCalls
    /\ \E newDescs \in NewDescs :
          rdc' = [rdc EXCEPT !.evictor[t] = [pc |-> "once", newDescs |-> newDescs],
                             !.token.calls = @ + 1]
    /\ UNCHANGED batchVars

\* et.doOnce.Do: the first caller goes on, a caller after it returns when
\* the first has returned.
OnceDo(t) ==
    /\ rdc.evictor[t].pc = "once"
    /\ rdc.token.once # "running"
    /\ rdc' = IF doOnce(rdc.token.once)
              THEN [rdc EXCEPT !.token.once = "running", !.evictor[t].pc = "lock"]
              ELSE [rdc EXCEPT !.evictor[t] = [pc |-> "idle", newDescs |-> <<>>]]
    /\ UNCHANGED batchVars

\* et.doLocker.Lock
TokenLock(t) ==
    /\ rdc.evictor[t].pc = "lock"
    /\ rdc.writer = Nil
    /\ rdc' = [rdc EXCEPT !.writer = Ptr(t), !.evictor[t].pc = "do"]
    /\ UNCHANGED batchVars

\* et.do: the closure evicts the descriptor the token was made with.
TokenDo(t) ==
    /\ rdc.evictor[t].pc = "do"
    /\ rdc' = [rdc EXCEPT !.cache = evictCachedRangeDescriptorLocked(
                                        @, rdc.token.key, rdc.token.prevDesc, rdc.token.inverted),
                          !.token.runs = @ + 1,
                          !.evictor[t].pc = IF rdc.evictor[t].newDescs # <<>> THEN "replace"
                                            ELSE "unlock"]
    /\ UNCHANGED batchVars

\* et.doReplace: insertRangeDescriptorsLocked of the new descriptors.
TokenReplace(t) ==
    /\ rdc.evictor[t].pc = "replace"
    /\ rdc' = [rdc EXCEPT !.cache = insertRangeDescriptorsLocked(@, rdc.evictor[t].newDescs),
                          !.evictor[t].pc = "unlock"]
    /\ UNCHANGED batchVars

\* The deferred Unlock, and the Once is done.
TokenUnlock(t) ==
    /\ rdc.evictor[t].pc = "unlock"
    /\ rdc' = [rdc EXCEPT !.writer = Nil,
                          !.token.once = "done",
                          !.evictor[t] = [pc |-> "idle", newDescs |-> <<>>]]
    /\ UNCHANGED batchVars

\* GetCachedRangeDescriptor, under the read lock.
GetCachedRangeDescriptor ==
    /\ rdc.writer = Nil
    /\ \E key \in RKeys :
          LET entry == getCachedRangeDescriptorLocked(rdc.cache, key, FALSE) IN
          rdc' = [rdc EXCEPT !.read = [key |-> key,
                                       desc |-> IF entry = Nil THEN Nil ELSE rdc.cache[Deref(entry)],
                                       torn |-> \E t \in Evictors : rdc.evictor[t].pc = "replace"]]
    /\ UNCHANGED batchVars

NextToken ==
    \/ TokenInsert
    \/ TokenLookup
    \/ GetCachedRangeDescriptor
    \/ \E t \in Evictors :
          \/ EvictAndReplace(t)
          \/ OnceDo(t)
          \/ TokenLock(t)
          \/ TokenDo(t)
          \/ TokenReplace(t)
          \/ TokenUnlock(t)

SpecToken == Init /\ [][NextToken]_vars

----------------------------------------------------------------------------
(* Two goroutines look keys up.  A miss goes to the database through the   *)
(* single-flight group, where a lookup may join the one in flight for      *)
(* another key; the database answers as it pleases.                        *)

\* makeLookupRequestKey, for user keys: the key, or the start (the end, in
\* reverse) of the descriptor passed, the direction, and that descriptor's
\* generation when it is comparable.
makeLookupRequestKey(key, prevDesc, useReverseScan) ==
    << IF prevDesc # Nil
       THEN IF useReverseScan THEN Deref(prevDesc).EndKey ELSE Deref(prevDesc).StartKey
       ELSE key,
       useReverseScan,
       IF prevDesc # Nil /\ Deref(prevDesc).GenerationComparable
       THEN << Deref(prevDesc).Generation >> ELSE <<>> >>

\* A slip: whatever the flight returned is taken to contain the key.
resultTaken(desc, key, useReverseScan) == TRUE

\* tryLookupRangeDescriptor, the result of the flight: whether it contains
\* the key of this lookup.
resultContainsKey(desc, key, useReverseScan) == Contains(desc, key, useReverseScan)

\* The keys looked up, and the descriptor of the token passed: none, or the
\* range before its split.
LookupKeys == {2, 3}
PrevDescs == {Nil, Ptr(Descriptor(0, 4, 1, TRUE, 0))}
\* What RangeDescriptorDB.RangeLookup may return: one descriptor or two, of
\* which the first may or may not contain the key, and prefetched ones; or
\* none, which is an error, as is an error of the database.
RangeLookups ==
    { [rs |-> << Descriptor(0, 2, 2, TRUE, 0) >>, preRs |-> <<>>],
      [rs |-> << Descriptor(0, 2, 2, TRUE, 0) >>, preRs |-> << Descriptor(2, 4, 2, TRUE, 0) >>],
      [rs |-> << Descriptor(2, 4, 2, TRUE, 0) >>, preRs |-> <<>>],
      [rs |-> << Descriptor(0, 4, 1, TRUE, 0), Descriptor(0, 2, 2, TRUE, 0) >>, preRs |-> <<>>],
      [rs |-> <<>>, preRs |-> <<>>] }

\* lookupRangeDescriptorInternal is called.
LookupRangeDescriptor(t) ==
    /\ rdc.lookup[t].pc = "idle"
    /\ \E key \in LookupKeys, useReverseScan \in BOOLEAN, prevDesc \in PrevDescs :
          rdc' = [rdc EXCEPT !.lookup[t] = [NoLookup EXCEPT !.pc = "try", !.key = key,
                                                            !.useReverseScan = useReverseScan,
                                                            !.prevDesc = prevDesc]]
    /\ UNCHANGED batchVars

\* A slip: a lookup never finds a flight to join.
inFlightNever(flight, requestKey) == {}

\* singleflight.Group.DoChan, the calls in flight for the request key.
inFlightFor(flight, requestKey) ==
    { l \in Lookupers : flight[l] # Nil /\ Deref(flight[l]).requestKey = requestKey }

\* tryLookupRangeDescriptor up to the RUnlock: the cached descriptor is
\* returned; on a miss the lookup joins the flight of its request key or
\* starts one.
TryLookup(t) ==
    LET me == rdc.lookup[t]
        entry == getCachedRangeDescriptorLocked(rdc.cache, me.key, me.useReverseScan)
        requestKey == makeLookupRequestKey(me.key, me.prevDesc, me.useReverseScan)
        inFlight == inFlightFor(rdc.flight, requestKey)
    IN
    /\ me.pc = "try"
    /\ rdc.writer = Nil
    /\ rdc' = IF entry # Nil
              THEN [rdc EXCEPT !.lookup[t].pc = "returned",
                               !.lookup[t].desc = rdc.cache[Deref(entry)]]
              ELSE IF inFlight # {}
              THEN [rdc EXCEPT !.lookup[t].pc = "wait",
                               !.lookup[t].leader = Ptr(CHOOSE l \in inFlight : TRUE),
                               !.lookup[t].shared = TRUE]
              ELSE [rdc EXCEPT !.lookup[t].pc = "wait",
                               !.lookup[t].leader = Ptr(t),
                               !.flight[t] = Ptr([requestKey |-> requestKey, key |-> me.key,
                                                  useReverseScan |-> me.useReverseScan,
                                                  looked |-> Nil])]
    /\ UNCHANGED batchVars

\* The flight's function: performRangeLookup.
PerformRangeLookup(l) ==
    /\ rdc.flight[l] # Nil
    /\ Deref(rdc.flight[l]).looked = Nil
    /\ \E res \in RangeLookups :
          rdc' = [rdc EXCEPT !.flight[l] = Ptr([Deref(@) EXCEPT !.looked = Ptr(res)])]
    /\ UNCHANGED batchVars

\* The flight's function ends: under the write lock the prefetched
\* descriptors and the first of the result are inserted, and every lookup
\* that waits for the flight gets the result.
FlightReturns(l) ==
    /\ rdc.flight[l] # Nil
    /\ Deref(rdc.flight[l]).looked # Nil
    /\ rdc.writer = Nil
    /\ LET res == Deref(Deref(rdc.flight[l]).looked)
           failed == Len(res.rs) = 0
           waiting == { t \in Lookupers : rdc.lookup[t].pc = "wait" /\ rdc.lookup[t].leader = Ptr(l) }
       IN rdc' = [rdc EXCEPT
             !.cache = IF failed THEN @
                       ELSE insertRangeDescriptorsLocked(
                                insertRangeDescriptorsLocked(@, res.preRs), SubSeq(res.rs, 1, 1)),
             !.flight[l] = Nil,
             !.lookup = [t \in Lookupers |->
                            IF t \in waiting
                            THEN [@[t] EXCEPT !.pc = "check", !.err = failed,
                                              !.desc = IF failed THEN Nil ELSE Ptr(res.rs[1])]
                            ELSE @[t]]]
    /\ UNCHANGED batchVars

\* tryLookupRangeDescriptor once the flight has answered, and the loop of
\* lookupRangeDescriptorInternal: an error is returned; a descriptor that
\* does not contain the key is a lookupCoalescingError and the lookup is
\* tried again; the descriptor is returned otherwise.
CheckResult(t) ==
    LET me == rdc.lookup[t] IN
    /\ me.pc = "check"
    /\ rdc' = IF me.err
              THEN [rdc EXCEPT !.lookup[t].pc = "failed", !.lookup[t].leader = Nil]
              ELSE IF ~resultContainsKey(Deref(me.desc), me.key, me.useReverseScan)
              THEN [rdc EXCEPT !.lookup[t].pc = "try", !.lookup[t].leader = Nil,
                               !.lookup[t].desc = Nil, !.lookup[t].retried = TRUE]
              ELSE [rdc EXCEPT !.lookup[t].pc = "returned", !.lookup[t].leader = Nil]
    /\ UNCHANGED batchVars

\* The caller is done with what the lookup returned.
LookupDone(t) ==
    /\ rdc.lookup[t].pc \in {"returned", "failed"}
    /\ rdc' = [rdc EXCEPT !.lookup[t] = NoLookup]
    /\ UNCHANGED batchVars

NextLookup ==
    \E t \in Lookupers :
        \/ LookupRangeDescriptor(t)
        \/ TryLookup(t)
        \/ PerformRangeLookup(t)
        \/ FlightReturns(t)
        \/ CheckResult(t)
        \/ LookupDone(t)

SpecLookup == Init /\ [][NextLookup]_vars

----------------------------------------------------------------------------
(* Lookups against a database that answers with a descriptor that contains *)
(* the key, with callers whose context may be cancelled while they wait.   *)
(* A goroutine starts its next lookup once the flight it led is over, so   *)
(* that a goroutine names one flight.                                      *)

\* lookupRangeDescriptorInternal is called, for a reverse scan: with the
\* token of the unsplit range the lookups of the two keys share a request
\* key and want different descriptors.
StartLookup(t) ==
    /\ rdc.flight[t] = Nil
    /\ rdc.lookup[t].pc = "idle"
    /\ \E key \in LookupKeys, prevDesc \in PrevDescs \ {Nil} :
          rdc' = [rdc EXCEPT !.lookup[t] = [NoLookup EXCEPT !.pc = "try", !.key = key,
                                                            !.useReverseScan = TRUE,
                                                            !.prevDesc = prevDesc]]
    /\ UNCHANGED batchVars

\* The answers of the database whose first descriptor contains the key.
CoveringLookups(key, useReverseScan) ==
    { res \in RangeLookups : Len(res.rs) > 0 /\ Contains(res.rs[1], key, useReverseScan) }

\* The flight's function: performRangeLookup, for the key of the flight's
\* leader.
PerformCoveringLookup(l) ==
    /\ rdc.flight[l] # Nil
    /\ Deref(rdc.flight[l]).looked = Nil
    /\ \E res \in CoveringLookups(Deref(rdc.flight[l]).key, Deref(rdc.flight[l]).useReverseScan) :
          rdc' = [rdc EXCEPT !.flight[l] = Ptr([Deref(@) EXCEPT !.looked = Ptr(res)])]
    /\ UNCHANGED batchVars

\* tryLookupRangeDescriptor, the select: the caller's context is done while
\* it waits; it returns the context's error, and the flight, whose context
\* is not the caller's, goes on.
ContextDone(t) ==
    /\ rdc.lookup[t].pc = "wait"
    /\ rdc' = [rdc EXCEPT !.lookup[t].pc = "failed", !.lookup[t].err = TRUE,
                          !.lookup[t].leader = Nil]
    /\ UNCHANGED batchVars

NextLookupLive ==
    \E t \in Lookupers :
        \/ StartLookup(t)
        \/ TryLookup(t)
        \/ PerformCoveringLookup(t)
        \/ FlightReturns(t)
        \/ CheckResult(t)
        \/ LookupDone(t)
        \/ ContextDone(t)

\* The scheduler runs every goroutine that can run, the cache's lock is
\* granted to who waits for it, and the database answers: every step of a
\* lookup and of a flight is taken if it stays possible.  When a caller
\* starts a lookup and whether its context is cancelled is up to the caller.
FairLookup ==
    \A t \in Lookupers :
        /\ WF_vars(TryLookup(t) \/ CheckResult(t))
        /\ WF_vars(PerformCoveringLookup(t) \/ FlightReturns(t))

SpecLookupLive == Init /\ [][NextLookupLive]_vars /\ FairLookup

----------------------------------------------------------------------------
(* The same replica fed splits and merges with the range to its right,     *)
(* and changes of replicas.  The lock Stage takes for a split or a merge   *)
(* is released by the side effects of the command, after the commit.       *)

\* Splits and merges, accepted and rejected by the lease-applied index.
SplitMergeCmds(st) ==
    { NewCmd(st.RaftAppliedIndex + 1, 1, mli, st.Lease.Sequence, Nil, Nil, Nil,
             [Result(MaxTS, ZeroStats, Nil, Nil) EXCEPT !.Split = which[1], !.Merge = which[2]],
             FALSE, FALSE, 1)
      : mli \in {st.LeaseAppliedIndex, st.LeaseAppliedIndex + 1},
        which \in { << Ptr([SplitTrigger |-> "rhs"]), Nil >>, << Nil, Ptr([RightDesc |-> "rhs"]) >> } }

\* Splits and merges that the lease rules accept and that Stage's assertions
\* may refuse: a raft index that is not the next one, a closed timestamp
\* that may be below the view's, a local write that may be below it.
AssertedSplitMergeCmds(st) ==
    LET accepted == { c \in SplitMergeCmds(st) : c.MaxLeaseIndex = st.LeaseAppliedIndex + 1 } IN
    { [c EXCEPT !.Index = idx] : c \in accepted, idx \in {0, st.RaftAppliedIndex + 2} }
    \cup { [c EXCEPT !.ClosedTimestamp = Ptr(1)] : c \in accepted }
    \cup { [c EXCEPT !.IsLocal = TRUE, !.AppliesTimestampCache = TRUE,
                     !.ReplicatedEvalResult.WriteTimestamp = 2] : c \in accepted }

\* A split or a merge is proposed while the right-hand replica is there and
\* no earlier one holds its raft mutex.
SplitMergeInputs(st, rr) ==
    { [cmd |-> c, env |-> Env(fault, FALSE)]
        : c \in { x \in SplitMergeCmds(st) :
                    rr.rhs.destroyStatus = "destroyReasonAlive" /\ ~rr.rhs.raftMuHeld },
          fault \in {"none", "splitMergeLock", "getReplica", "preDestroy"} }
    \cup { [cmd |-> c, env |-> Env("none", FALSE)]
             : c \in { x \in AssertedSplitMergeCmds(st) :
                         rr.rhs.destroyStatus = "destroyReasonAlive" /\ ~rr.rhs.raftMuHeld }
                      \cup { [PlainCmd(st, st.LeaseAppliedIndex + 1, st.Lease.Sequence, MaxTS)
                                 EXCEPT !.ClosedTimestamp = Ptr(2)] } }
    \cup { [cmd |-> c, env |-> Env("none", FALSE)]
             : c \in { x \in ChangeReplicasCmds(st) : ~x.IsLocal }
                      \cup { PlainCmd(st, st.LeaseAppliedIndex + 1, st.Lease.Sequence, MaxTS) } }

\* replicaAppBatch.Stage
StageSplitMerge == StageOf(SplitMergeInputs(b.state, r))

\* The side effects of a committed split or merge call cmd.splitMergeUnlock.
ReleaseSplitMergeLock ==
    /\ Idle
    /\ r.rhs.raftMuHeld
    /\ b.r # Nil
    /\ b.batch = Nil
    /\ r' = [r EXCEPT !.rhs.raftMuHeld = FALSE]
    /\ UNCHANGED <<reader, rdc, closes, mb, log, disk, envIn, peer, raftClosedTimestampAssertionsEnabled,
                   proc, sm, engine, b, call, err, cmdIn, cmd, prev, prevR, fx>>

\* The outer loop closes a batch once it is committed or a call has failed,
\* and the side effects of a committed command run before that.
CloseApplied ==
    /\ b.batch = Nil \/ proc = "failed" \/ b.entries = 0
    /\ b.batch = Nil => ~r.rhs.raftMuHeld
    /\ Close

NextSplitMerge ==
    NewBatch \/ StageSplitMerge \/ ApplyToStateMachine \/ ReleaseSplitMergeLock \/ CloseApplied \/ Return

SpecSplitMerge == Init /\ [][NextSplitMerge]_vars

----------------------------------------------------------------------------
(* The same replica fed truncations of the raft log, under both settings   *)
(* of loosely coupled truncation.                                          *)

\* Truncations at the replica's truncated index (discarded) and past it,
\* with and without RaftExpectedFirstIndex, accepted and rejected; each takes
\* three bytes off the log.
\* The truncations the model lets wait in the truncator's queue.
MaxPending == 1

TruncationCmd(st, mli, ahead, first) ==
    NewCmd(st.RaftAppliedIndex + 1, 1, mli, st.Lease.Sequence, Nil, Nil, Nil,
           [Result(MaxTS, ZeroStats, Nil, Nil) EXCEPT
               !.State = TruncatedStateAt(st.TruncatedState + ahead),
               !.RaftLogDelta = 3,
               !.RaftExpectedFirstIndex = first],
           FALSE, FALSE, 1)

\* The truncations Stage is handed: accepted ones of every shape under both
\* settings, ones whose truncated state cannot be handled, rejected ones,
\* and a plain command.  One more is handed to the truncator only while its
\* queue has room.
TruncationInputs(st, rr) ==
    LET loose(fault, loosely) ==
            [Env(fault, FALSE) EXCEPT !.looselyCoupledTruncation = loosely]
        all ==
            { [cmd |-> TruncationCmd(st, st.LeaseAppliedIndex + 1, ahead, first),
               env |-> loose("none", loosely)]
                : ahead \in {0, 1}, first \in {0, 2}, loosely \in BOOLEAN }
            \cup { [cmd |-> TruncationCmd(st, st.LeaseAppliedIndex + 1, 1, 2),
                    env |-> loose("truncatedState", loosely)] : loosely \in BOOLEAN }
            \cup { [cmd |-> TruncationCmd(st, st.LeaseAppliedIndex, 1, first),
                    env |-> loose("none", loosely)]
                     : first \in {0, 2}, loosely \in BOOLEAN }
            \cup { [cmd |-> PlainCmd(st, st.LeaseAppliedIndex + 1, st.Lease.Sequence, MaxTS),
                    env |-> NoEnv] }
    IN { in \in all :
            \/ Len(rr.pendingTruncations) < MaxPending
            \/ truncationApplies(in.env.looselyCoupledTruncation,
                                 in.cmd.ReplicatedEvalResult.RaftExpectedFirstIndex) }

\* replicaAppBatch.Stage
StageTruncation == StageOf(TruncationInputs(b.state, r))

NextTruncation == NewBatch \/ StageTruncation \/ ApplyToStateMachine \/ Close \/ Return

SpecTruncation == Init /\ [][NextTruncation]_vars

----------------------------------------------------------------------------
(* The trivial-state update applied a second time for the command Stage    *)
(* has just staged.                                                        *)

\* Commands with a stats delta, a closed timestamp, a later term, accepted
\* and rejected.
TwiceInputs(st) ==
    { [cmd |-> c, env |-> NoEnv]
        : c \in PayloadCmds(st) \cup RejectedCmds(st)
                 \cup { x \in ClosedTimestampCmds(st) : ~x.IsLocal } }

\* replicaAppBatch.Stage
StageOnce == StageOf(TwiceInputs(b.state))

\* replicaAppBatch.stageTrivialReplicatedEvalResult, for the same command on
\* the view the first application left.
StageTrivialAgain ==
    /\ proc = "running"
    /\ call = "Stage"
    /\ err = "none"
    /\ LET f == stageTrivialReplicatedEvalResult(Frame(b, r, cmd)) IN
          /\ b' = f.b
          /\ r' = f.r
          /\ cmd' = f.cmd
          /\ fx' = f.fx
    /\ call' = "stageTrivialReplicatedEvalResult"
    /\ prev' = b
    /\ prevR' = r
    /\ UNCHANGED <<reader, rdc, closes, mb, log, disk, envIn, peer, raftClosedTimestampAssertionsEnabled,
                   proc, sm, engine, err, cmdIn>>

NextTwice == NewBatch \/ StageOnce \/ StageTrivialAgain \/ ApplyToStateMachine \/ Close \/ Return

SpecTwice == Init /\ [][NextTwice]_vars

----------------------------------------------------------------------------
(* Garbage collection beside a read.  The replica applies commands that    *)
(* raise the GC threshold and commands that collect the versions below it, *)
(* while a read of the range captures a snapshot of the engine and then    *)
(* checks the in-memory GC threshold against its timestamp.                *)

\* What evaluation proposes for garbage collection: a command that raises
\* the threshold, with or without the collection of the old version in its
\* write batch, and a command that collects below a threshold raised before
\* (in[1] is the threshold, 0 for none; in[2] says the old version is
\* collected; in[3] is the write timestamp).  A threshold is never lowered,
\* and nothing is collected above it.
GCCmds(st) ==
    { NewCmd(st.RaftAppliedIndex + 1, 1, st.LeaseAppliedIndex + 1, st.Lease.Sequence, Nil,
             IF in[2] THEN Ptr(<< Clear({"old"}) >>) ELSE Nil, Nil,
             [Result(in[3], ZeroStats, Nil, Nil) EXCEPT
                 !.State = IF in[1] = 0 THEN Nil ELSE GCThresholdState(in[1])],
             FALSE, FALSE, 1)
      : in \in { x \in (Timestamps \X BOOLEAN \X {MaxTS, MaxTS + 1}) :
                   /\ x[1] # 0 => x[1] >= st.GCThreshold
                   /\ x[1] = 0 => x[2]
                   /\ x[2] => (IF x[1] = 0 THEN st.GCThreshold ELSE x[1]) >= OldVersionTS } }

ReaderInputs(st) ==
    { [cmd |-> c, env |-> Env("none", FALSE)]
        : c \in GCCmds(st) \cup { PlainCmd(st, st.LeaseAppliedIndex + 1, st.Lease.Sequence, MaxTS + 1) } }

\* replicaAppBatch.Stage
StageBesideReader == StageOf(ReaderInputs(b.state)) /\ UNCHANGED reader

\* The timestamps of a read.
ReadTimestamps == (Timestamps \ {0}) \cup {MaxTS + 1}

\* The read captures a snapshot of the engine.
ReaderSnapshot ==
    /\ reader.pc = "idle"
    /\ \E ts \in ReadTimestamps :
          reader' = [pc |-> "snapshot", ts |-> ts, snapshot |-> Ptr(engine.kv), valid |-> FALSE]
    /\ UNCHANGED <<applyVars, rdc>>

\* A slip: a threshold at the read's timestamp is taken for one below it.
thresholdBelowOrAt(threshold, ts) == threshold <= ts

\* The read's check of the GC threshold: it is below the read's timestamp.
thresholdBelow(threshold, ts) == threshold < ts

\* The read validates its snapshot against the in-memory GC threshold.
ReaderValidate ==
    /\ reader.pc = "snapshot"
    /\ reader' = [reader EXCEPT !.pc = "validated",
                                !.valid = thresholdBelow(r.state.GCThreshold, reader.ts)]
    /\ UNCHANGED <<applyVars, rdc>>

\* The read is over.
ReaderDone ==
    /\ reader.pc = "validated"
    /\ reader' = NoReader
    /\ UNCHANGED <<applyVars, rdc>>

NextReader ==
    \/ NewBatch /\ UNCHANGED reader
    \/ StageBesideReader
    \/ ApplyToStateMachine /\ UNCHANGED reader
    \/ Close /\ UNCHANGED reader
    \/ Return /\ UNCHANGED reader
    \/ ReaderSnapshot
    \/ ReaderValidate
    \/ ReaderDone

SpecReader == Init /\ [][NextReader]_vars

----------------------------------------------------------------------------
(* Properties *)

StageCalled == call = "Stage"
StageReturned == call = "Stage" /\ proc # "dead"
StageSucceeded == StageReturned /\ err = "none"
\* The command handed to Stage had the next raft index, so the predicate ran.
StageChecked == call = "Stage" /\ cmdIn.Index # 0 /\ cmdIn.Index = prev.state.RaftAppliedIndex + 1
Rejected == StageChecked /\ cmd.ForcedErr # "none"
Accepted == StageChecked /\ cmd.ForcedErr = "none"
Committed == call = "ApplyToStateMachine" /\ prev.batch # Nil /\ b.batch = Nil
CarriesClosedTimestamp(c) == c.ClosedTimestamp # Nil /\ Deref(c.ClosedTimestamp) # 0

\* C1: Stage succeeds only for a command whose raft index is non-zero and is
\* the view's applied index plus one, any other index gives an assertion
\* error; after a successful Stage the view's applied index and term are the
\* command's, so the applied index grows by exactly one per staged command.
C1_AppliedIndexAdvancesByOne ==
    StageReturned =>
        /\ err = "none" => cmdIn.Index # 0 /\ cmdIn.Index = prev.state.RaftAppliedIndex + 1
        /\ (cmdIn.Index = 0 \/ cmdIn.Index # prev.state.RaftAppliedIndex + 1)
               => /\ err \in {"AssertionFailed: non-zero index", "AssertionFailed: applied index jumped"}
                  /\ b = prev
        /\ err = "none" =>
               /\ b.state.RaftAppliedIndex = cmdIn.Index
               /\ b.state.RaftAppliedIndexTerm = cmdIn.Term
               /\ b.state.RaftAppliedIndex = prev.state.RaftAppliedIndex + 1

\* Two commands staged in one batch, the second one rejected and of a later index.
C1_Witness ==
    /\ StageSucceeded
    /\ Rejected
    /\ b.entries = 2
    /\ b.state.RaftAppliedIndex = r.state.RaftAppliedIndex + 2

\* C2: a rejected command is replaced by an empty entry: its write batch,
\* replicated result, logical-op log and closed timestamp are cleared, it adds
\* nothing to the storage batch, fires no trigger, leaves the view's stats,
\* closed timestamp and lease-applied index alone, advances the applied index
\* by one, and Stage returns it without error.
C2_RejectedCommandIsEmptyEntry ==
    Rejected =>
        /\ StageSucceeded
        /\ cmd.WriteBatch = Nil
        /\ cmd.LogicalOpLog = Nil
        /\ cmd.ClosedTimestamp = Nil
        /\ cmd.ReplicatedEvalResult = EmptyReplicatedEvalResult
        /\ b.batch = prev.batch
        /\ b.mutations = prev.mutations
        /\ b.changeRemovesReplica = prev.changeRemovesReplica
        /\ fx = <<>>
        /\ r = prevR
        /\ b.state.Stats = prev.state.Stats
        /\ b.state.RaftClosedTimestamp = prev.state.RaftClosedTimestamp
        /\ b.state.LeaseAppliedIndex = prev.state.LeaseAppliedIndex
        /\ b.state.RaftAppliedIndex = prev.state.RaftAppliedIndex + 1

\* A rejected command that came with a write batch, logical ops, a closed
\* timestamp, a stats delta and the removal of this store.
C2_Witness ==
    /\ Rejected
    /\ cmdIn.WriteBatch # Nil
    /\ cmdIn.LogicalOpLog # Nil
    /\ CarriesClosedTimestamp(cmdIn)
    /\ cmdIn.ReplicatedEvalResult.Delta # ZeroStats
    /\ cmdIn.ReplicatedEvalResult.ChangeReplicas # Nil

\* C3: the predicate accepts a command iff its MaxLeaseIndex is above the
\* view's lease-applied index, its lease sequence is the view's, and its
\* timestamp is above the view's GC threshold; otherwise the forced error is
\* that of the first rule that fails, in this order.
C3_RejectionRules ==
    StageChecked =>
        LET laiOK == cmdIn.MaxLeaseIndex > prev.state.LeaseAppliedIndex
            leaseOK == cmdIn.ProposerLeaseSequence = prev.state.Lease.Sequence
            gcOK == cmdIn.ReplicatedEvalResult.WriteTimestamp > prev.state.GCThreshold
        IN /\ cmd.ForcedErr = "none" <=> (laiOK /\ leaseOK /\ gcOK)
           /\ ~laiOK => cmd.ForcedErr = "LeaseAppliedIndex"
           /\ laiOK /\ ~leaseOK => cmd.ForcedErr = "NotLeaseHolder"
           /\ laiOK /\ leaseOK /\ ~gcOK => cmd.ForcedErr = "BatchTimestampBeforeGCThreshold"

\* A command at the view's own lease-applied index, of the right lease and
\* above the GC threshold, is rejected.
C3_Witness ==
    /\ Rejected
    /\ cmdIn.MaxLeaseIndex = prev.state.LeaseAppliedIndex
    /\ cmdIn.ProposerLeaseSequence = prev.state.Lease.Sequence
    /\ cmdIn.ReplicatedEvalResult.WriteTimestamp > prev.state.GCThreshold

PairStaged == call = "PairStage" /\ proc # "dead"
PairSucceeded == PairStaged /\ err = "none" /\ peer.err = "none"

\* The fields of a batch's view but the closed timestamp.
ViewButClosedTimestamp(st) == [st EXCEPT !.RaftClosedTimestamp = 0]

\* C4, as claimed: two replicas that stage the same commands from the same
\* state reach the same decision and forced error on every command and, the
\* command staged by both, the same view, wherever the command is local.
C4_ReplicasAgree ==
    /\ PairStaged => /\ cmd.ForcedErr = peer.cmd.ForcedErr
                     /\ cmd.LeaseIndex = peer.cmd.LeaseIndex
    /\ PairSucceeded => b.state = peer.b.state

\* C4, amended: the decision, the forced error and every field of the view
\* but the closed timestamp are the same on both replicas; the closed
\* timestamps of the two views are the same when the assertions are enabled.
C4_ReplicasAgreeButOnClosedTimestamp ==
    /\ PairStaged => /\ cmd.ForcedErr = peer.cmd.ForcedErr
                     /\ cmd.LeaseIndex = peer.cmd.LeaseIndex
    /\ PairSucceeded => ViewButClosedTimestamp(b.state) = ViewButClosedTimestamp(peer.b.state)
    /\ (PairSucceeded /\ raftClosedTimestampAssertionsEnabled) => b.state = peer.b.state

\* The third command of the log, rejected by both replicas, local on this
\* one alone, which has the whole log in one batch while the other has not.
C4_Witness ==
    /\ PairSucceeded
    /\ cmdIn.IsLocal /\ ~peer.cmd.IsLocal
    /\ cmd.ForcedErr = "NotLeaseHolder"
    /\ peer.cmd.ForcedErr = "NotLeaseHolder"
    /\ b.entries = 3
    /\ peer.b.entries = 1

\* C5: with the assertions enabled, an accepted command whose non-empty closed
\* timestamp is below the view's makes Stage return an assertion error; an
\* accepted command that carries a non-empty closed timestamp sets the view's
\* to it; so no successful Stage lowers the view's closed timestamp.
C5_NoCmdClosedTimestampRegression ==
    /\ (raftClosedTimestampAssertionsEnabled /\ Accepted /\ CarriesClosedTimestamp(cmdIn)
            /\ Deref(cmdIn.ClosedTimestamp) < prev.state.RaftClosedTimestamp)
          => /\ proc = "failed"
             /\ err = "AssertionFailed: raft closed timestamp regression in cmd"
    /\ (StageSucceeded /\ Accepted /\ CarriesClosedTimestamp(cmdIn))
          => b.state.RaftClosedTimestamp = Deref(cmdIn.ClosedTimestamp)
    /\ (raftClosedTimestampAssertionsEnabled /\ StageSucceeded)
          => b.state.RaftClosedTimestamp >= prev.state.RaftClosedTimestamp

\* With the assertions enabled, a command carrying a closed timestamp below
\* the one an earlier command of the batch set has been refused.
C5_Witness ==
    /\ raftClosedTimestampAssertionsEnabled
    /\ Accepted
    /\ CarriesClosedTimestamp(cmdIn)
    /\ Deref(cmdIn.ClosedTimestamp) < prev.state.RaftClosedTimestamp
    /\ prev.entries = 1
    /\ err = "AssertionFailed: raft closed timestamp regression in cmd"

\* C6, as claimed: over any sequence of batches neither the replica's
\* committed closed timestamp nor a batch's view of it ever decreases.
C6_ClosedTimestampsNeverDecrease ==
    [][ /\ r'.state.RaftClosedTimestamp >= r.state.RaftClosedTimestamp
        /\ (b.r # Nil /\ b'.r # Nil)
              => b'.state.RaftClosedTimestamp >= b.state.RaftClosedTimestamp ]_vars

\* C6, amended: the replica's committed closed timestamp never decreases; with
\* the assertions enabled a batch's view of it never decreases either, and is
\* never below the replica's.
C6_ClosedTimestampsNeverDecreaseWhenAsserted ==
    [][ /\ r'.state.RaftClosedTimestamp >= r.state.RaftClosedTimestamp
        /\ (raftClosedTimestampAssertionsEnabled /\ b.r # Nil /\ b'.r # Nil)
              => b'.state.RaftClosedTimestamp >= b.state.RaftClosedTimestamp
        /\ (raftClosedTimestampAssertionsEnabled /\ b'.r # Nil)
              => b'.state.RaftClosedTimestamp >= r'.state.RaftClosedTimestamp ]_vars

\* A batch whose commit advanced the replica's closed timestamp from a
\* non-empty one, the assertions enabled.
C6_Witness ==
    /\ raftClosedTimestampAssertionsEnabled
    /\ Committed
    /\ err = "none"
    /\ prevR.state.RaftClosedTimestamp > 0
    /\ r.state.RaftClosedTimestamp > prevR.state.RaftClosedTimestamp

LocalIntentWrite == Accepted /\ cmdIn.IsLocal /\ cmdIn.AppliesTimestampCache

\* C7, as claimed: for an accepted local intent-writing command Stage succeeds
\* only if its write timestamp is above the closed timestamp prior commands
\* set, and a write timestamp at or below it gives an assertion error.
C7_NoWriteBelowClosedTimestamp ==
    (LocalIntentWrite /\ proc # "dead") =>
        /\ err = "none" => cmdIn.ReplicatedEvalResult.WriteTimestamp > prev.state.RaftClosedTimestamp
        /\ cmdIn.ReplicatedEvalResult.WriteTimestamp <= prev.state.RaftClosedTimestamp
              => err \in AssertionErrors

\* C7, amended: the same with the closed-timestamp assertions enabled and a
\* non-empty write timestamp; the check reads the closed timestamp of the view
\* alone, never the one the command carries.
C7_NoWriteBelowClosedTimestampWhenAsserted ==
    (raftClosedTimestampAssertionsEnabled /\ LocalIntentWrite /\ proc # "dead") =>
        /\ err = "none" => cmdIn.ReplicatedEvalResult.WriteTimestamp > prev.state.RaftClosedTimestamp
        /\ cmdIn.ReplicatedEvalResult.WriteTimestamp <= prev.state.RaftClosedTimestamp
              => err \in AssertionErrors
        /\ err = "AssertionFailed: command writing below closed timestamp"
              <=> /\ cmdIn.ReplicatedEvalResult.WriteTimestamp <= prev.state.RaftClosedTimestamp
                  /\ ~(/\ CarriesClosedTimestamp(cmdIn)
                        /\ Deref(cmdIn.ClosedTimestamp) < prev.state.RaftClosedTimestamp)

\* With the assertions enabled, a local intent write at the closed timestamp
\* it carries itself, above the view's non-empty one, has been staged.
C7_Witness ==
    /\ raftClosedTimestampAssertionsEnabled
    /\ LocalIntentWrite
    /\ StageSucceeded
    /\ CarriesClosedTimestamp(cmdIn)
    /\ cmdIn.ReplicatedEvalResult.WriteTimestamp <= Deref(cmdIn.ClosedTimestamp)
    /\ prev.state.RaftClosedTimestamp > 0

\* The stats delta a command brings, in whichever representation.
DeltaOf(c) ==
    IF c.ReplicatedEvalResult.DeprecatedDelta # Nil
    THEN Deref(c.ReplicatedEvalResult.DeprecatedDelta)
    ELSE c.ReplicatedEvalResult.Delta

\* C8: after a successful Stage the view's stats are the stats before it plus
\* the command's delta, componentwise, the delta of a rejected command being zero.
C8_StatsAreSummed ==
    StageSucceeded =>
        LET delta == IF Accepted THEN DeltaOf(cmdIn) ELSE ZeroStats IN
        /\ b.state.Stats.KeyCount = prev.state.Stats.KeyCount + delta.KeyCount
        /\ b.state.Stats.ValBytes = prev.state.Stats.ValBytes + delta.ValBytes

\* A non-zero delta, in the deprecated representation, added to stats that an
\* earlier command of the batch had already raised.
C8_Witness ==
    /\ StageSucceeded
    /\ Accepted
    /\ cmdIn.ReplicatedEvalResult.DeprecatedDelta # Nil
    /\ prev.state.Stats # ZeroStats
    /\ b.state.Stats.ValBytes = 4

\* C9: unless the batch removes the replica, the applied-state key is the last
\* record of the committed batch, after every write the commands staged, and
\* holds the view's applied index, lease-applied index, term, stats and closed
\* timestamp as they stand after the last staged command; a batch that removes
\* the replica is committed as staged.
C9_AppliedStateKeyIsLast ==
    Committed =>
        LET staged == Deref(prev.batch)
            ops == engine.last.ops
        IN IF prev.changeRemovesReplica
           THEN ops = staged
           ELSE /\ Len(ops) = Len(staged) + 1
                /\ SubSeq(ops, 1, Len(staged)) = staged
                /\ \A i \in 1..Len(staged) : staged[i].key # "RangeAppliedState"
                /\ ops[Len(ops)].op = "put"
                /\ ops[Len(ops)].key = "RangeAppliedState"
                /\ ops[Len(ops)].val =
                      << prev.state.RaftAppliedIndex, prev.state.LeaseAppliedIndex,
                         prev.state.RaftAppliedIndexTerm, prev.state.Stats.KeyCount,
                         prev.state.Stats.ValBytes, prev.state.RaftClosedTimestamp >>
                /\ engine.kv["RangeAppliedState"] = {ops[Len(ops)].val}

\* A committed batch of two commands that both staged a write.
C9_Witness ==
    /\ Committed
    /\ ~prev.changeRemovesReplica
    /\ prev.entries = 2
    /\ Len(Deref(prev.batch)) = 2

\* The storage batch stages the deletion of this replica's data.
RemovalStaged(ops) == \E i \in 1..Len(ops) : ops[i].op = "clear" /\ ops[i].keys = ReplicaKeys

\* C10: the batch is committed with sync=true iff a command staged in it
\* removes this replica: a batch with a replica removal commits synced, every
\* other batch unsynced.
C10_SyncIffRemoval ==
    Committed =>
        /\ engine.last.sync <=> prev.changeRemovesReplica
        /\ engine.last.sync <=> RemovalStaged(engine.last.ops)

\* A batch that removes the replica has been committed, synced.
C10_Witness ==
    /\ Committed
    /\ prev.changeRemovesReplica
    /\ engine.last.sync

\* The command handed to Stage drops this store from the range, and no
\* testing knob holds the removal back.
RemovesThisReplica ==
    /\ Accepted
    /\ cmdIn.ReplicatedEvalResult.ChangeReplicas # Nil
    /\ ThisStore \notin Deref(cmdIn.ReplicatedEvalResult.ChangeReplicas).Desc
    /\ ~envIn.DisableEagerReplicaRemoval

\* The writes a command's own write batch stages.
WritesOf(c) == IF c.WriteBatch = Nil THEN <<>> ELSE Deref(c.WriteBatch)

ApplyCalled == call = "ApplyToStateMachine"

\* C13, as claimed: no call of Stage changes a field of the live replica's
\* state; the fields change in ApplyToStateMachine alone, once the storage
\* commit has succeeded.
C13_StageLeavesReplicaStateAlone ==
    /\ StageCalled => r.state = prevR.state
    /\ (ApplyCalled /\ r.state # prevR.state) => Committed

\* The GC threshold an accepted command carries, a set.
GCThresholdOf(c) ==
    IF c.ReplicatedEvalResult.State = Nil THEN Nil
    ELSE Deref(c.ReplicatedEvalResult.State).GCThreshold

\* C13, amended: Stage leaves every field of the live replica's state alone
\* but the GC threshold, which it publishes to the replica before the commit
\* when an accepted command carries one; the batch's view keeps the old
\* threshold.  The applied index and term, the lease-applied index, the stats
\* and the closed timestamp change in ApplyToStateMachine alone, once the
\* storage commit has succeeded; it changes no other field.
C13_StagePublishesOnlyGCThreshold ==
    /\ StageCalled => r.state = [prevR.state EXCEPT !.GCThreshold = r.state.GCThreshold]
    /\ (StageReturned /\ Accepted /\ GCThresholdOf(cmdIn) # Nil /\ err = "none") =>
          /\ r.state.GCThreshold = Deref(GCThresholdOf(cmdIn))
          /\ b.state.GCThreshold = prev.state.GCThreshold
    /\ (StageReturned /\ ~(Accepted /\ GCThresholdOf(cmdIn) # Nil)) =>
          r.state.GCThreshold = prevR.state.GCThreshold
    /\ (ApplyCalled /\ r.state # prevR.state) => Committed
    /\ ApplyCalled =>
          r.state = [prevR.state EXCEPT !.RaftAppliedIndex = r.state.RaftAppliedIndex,
                                        !.RaftAppliedIndexTerm = r.state.RaftAppliedIndexTerm,
                                        !.LeaseAppliedIndex = r.state.LeaseAppliedIndex,
                                        !.Stats = r.state.Stats,
                                        !.RaftClosedTimestamp = r.state.RaftClosedTimestamp]

\* Stage has raised the live replica's GC threshold above the one the engine
\* and the batch's view know of; nothing is committed yet.
C13_Witness ==
    /\ StageSucceeded
    /\ Accepted
    /\ r.state.GCThreshold > prevR.state.GCThreshold
    /\ b.state.GCThreshold = prevR.state.GCThreshold
    /\ b.batch # Nil
    /\ b.entries = 1

\* One application of a log from the initial state, uninterrupted, with a
\* batch committed after each position in cuts and after the last entry:
\* the replica's state and the engine's at the end, or the failure.
RECURSIVE RunFrom(_, _, _, _, _, _)
RunFrom(entries, cuts, p, bb, rr, eng) ==
    IF p > Len(entries) THEN [ok |-> TRUE, state |-> rr.state, kv |-> eng.kv]
    ELSE LET f == StageFrame(IF bb.r = Nil THEN OpenBatch(rr) ELSE bb, rr, entries[p], NoEnv)
             eng1 == IngestExternalFiles(eng, f.ingested)
         IN IF Halted(f) THEN [ok |-> FALSE, state |-> f.r.state, kv |-> eng1.kv]
            ELSE IF p \in cuts \/ p = Len(entries)
            THEN LET g == ApplyFrame(f.b, f.r, eng1, ZeroStateMachineStats, FALSE, FALSE, {}) IN
                 IF g.err # "none" THEN [ok |-> FALSE, state |-> g.r.state, kv |-> g.engine.kv]
                 ELSE RunFrom(entries, cuts, p + 1, ZeroBatch, g.r, g.engine)
            ELSE RunFrom(entries, cuts, p + 1, f.b, f.r, eng1)
Run(entries, cuts) == RunFrom(entries, cuts, 1, ZeroBatch, InitialReplica(1), InitialEngine(1))

\* The partitions of a log into batches that leave each non-trivial entry
\* in a batch of its own.
ValidCuts(entries) ==
    { cuts \in SUBSET (1 .. Len(entries) - 1) :
        \A p \in 1 .. Len(entries) :
            ~IsTrivial(entries[p]) =>
                /\ p < Len(entries) => p \in cuts
                /\ p > 1 => p - 1 \in cuts }
\* The partition into batches of one entry.
EveryEntry(entries) == 1 .. Len(entries) - 1

\* What the replica has reached, to compare with a run.
Outcome == [ok |-> proc = "running", state |-> r.state, kv |-> engine.kv]
\* An outcome with the closed timestamp left out, of the replica and of the
\* applied-state key.
ButClosedTimestamp(o) ==
    [o EXCEPT !.state.RaftClosedTimestamp = 0,
              !.kv["RangeAppliedState"] = IF @ = Nil THEN Nil ELSE Ptr(SubSeq(Deref(@), 1, 5))]
\* Every entry of the log is applied and committed, no batch is open.
AllApplied ==
    /\ Len(log) > 0
    /\ b.r = Nil
    /\ r.state.RaftAppliedIndex = Len(log) + 1
\* Two outcomes are the same failure, or the same state reached.
Same(o1, o2) == o1.ok = o2.ok /\ (o1.ok => o1 = o2)

\* C15, as claimed: whatever the partition of the log into batches, the
\* final state of the replica and the engine's keys, the persisted
\* applied-state key among them, are the same, and they are what the replica
\* reaches.
C15_AnyPartitionSameState ==
    AllApplied =>
        /\ \A cuts \in ValidCuts(log) : Same(Run(log, cuts), Run(log, EveryEntry(log)))
        /\ Same(Outcome, Run(log, EveryEntry(log)))

\* C15, amended: whatever the partition of the log into batches, the final
\* applied index and term, lease-applied index and stats, and the engine's
\* keys, are the same but for the closed timestamp, and they are what the
\* replica reaches; the closed timestamp of the replica and of the
\* applied-state key are the same too when the closed-timestamp assertions
\* are enabled.
C15_AnyPartitionSameStateButClosedTimestamp ==
    AllApplied =>
        /\ \A cuts \in ValidCuts(log) :
              /\ Same(ButClosedTimestamp(Run(log, cuts)),
                      ButClosedTimestamp(Run(log, EveryEntry(log))))
              /\ raftClosedTimestampAssertionsEnabled =>
                    Same(Run(log, cuts), Run(log, EveryEntry(log)))
        /\ Same(ButClosedTimestamp(Outcome), ButClosedTimestamp(Run(log, EveryEntry(log))))
        /\ raftClosedTimestampAssertionsEnabled => Same(Outcome, Run(log, EveryEntry(log)))

\* A log of three entries with closed timestamps has been applied without a
\* crash, in fewer batches than entries, and it has more than one partition.
C15_Witness ==
    /\ AllApplied
    /\ proc = "running"
    /\ Len(log) = 3
    /\ \E p \in DOMAIN log : log[p].ClosedTimestamp # Nil
    /\ sm.stats.batchesProcessed < sm.stats.entriesProcessed
    /\ r.state.RaftClosedTimestamp > 0
    /\ \E c1, c2 \in ValidCuts(log) : c1 # c2

\* The stats after the first n entries of the log, each of them accepted.
RECURSIVE StatsUpTo(_)
StatsUpTo(n) ==
    IF n = 0 THEN ZeroStats
    ELSE MVCCStatsAdd(StatsUpTo(n - 1), log[n].ReplicatedEvalResult.Delta)
\* The user key after the write batches of the first n entries of the log.
WritesUpTo(n) ==
    LET W == { p \in 1 .. n : log[p].WriteBatch # Nil } IN
    IF W = {} THEN Nil ELSE Ptr(<< log[CHOOSE p \in W : \A q \in W : q <= p].Index >>)
\* An engine state holds the writes and the stats of the entries up to the
\* index of its applied-state key, all of them and of no entry after; an
\* SSTable of these entries is ingested.  With no applied-state key, the
\* last entry has removed the replica and every key of it with it.
Atomic(kv) ==
    IF kv["RangeAppliedState"] = Nil
    THEN /\ Len(log) > 0
         /\ log[Len(log)].ReplicatedEvalResult.ChangeReplicas # Nil
         /\ \A k \in ReplicaKeys : kv[k] = Nil
         /\ kv["RangeTombstone"] # Nil
    ELSE LET as == Deref(kv["RangeAppliedState"])
             n == as[1] - 1
         IN /\ n <= Len(log)
            /\ kv["a"] = WritesUpTo(n)
            /\ as[2] = as[1]
            /\ as[4] = StatsUpTo(n).KeyCount
            /\ as[5] = StatsUpTo(n).ValBytes
            /\ \A p \in 1 .. n : log[p].ReplicatedEvalResult.AddSSTable # Nil => kv["sst"] # Nil
            /\ \A k \in RangeIDLocalKeys \cup RangeLocalKeys : kv[k] # Nil

\* A crash has lost a batch, and the log is applied again to its end.
AppliedAgain == AllApplied /\ disk.crashes > 0 /\ disk.lost

\* C12, as claimed: whenever the process may crash, each state the crash may
\* leave of the engine holds the writes of a batch and its advanced
\* applied-state key, or none of them; once a crash has lost a batch and the
\* entries are applied again, the replica and the engine are in the state of
\* the uninterrupted run with the same batches.
C12_CrashAtomicity ==
    /\ \A i \in DOMAIN disk.states : Atomic(disk.states[i])
    /\ AppliedAgain => Same(Outcome, Run(log, disk.cuts))

\* C12, amended: the same of the states a crash may leave; the replica and
\* the engine are then in the state of the uninterrupted run but for the
\* closed timestamp of the replica and of the applied-state key, which are
\* those of the uninterrupted run too when the closed-timestamp assertions
\* are enabled.
C12_CrashAtomicityButClosedTimestamp ==
    /\ \A i \in DOMAIN disk.states : Atomic(disk.states[i])
    /\ AppliedAgain =>
          /\ Same(ButClosedTimestamp(Outcome), ButClosedTimestamp(Run(log, disk.cuts)))
          /\ raftClosedTimestampAssertionsEnabled => Same(Outcome, Run(log, disk.cuts))

\* A crash lost a committed batch that had written a user key; the entries
\* of a log of three are applied again, the last write is in the engine.
C12_Witness ==
    /\ AppliedAgain
    /\ proc = "running"
    /\ Len(log) = 3
    /\ log[3].WriteBatch # Nil
    /\ engine.kv["a"] = Ptr(<< 4 >>)
    /\ r.state.RaftClosedTimestamp > 0

\* The two batches have staged the same command, and the replicaAppBatch
\* has returned no error in the sequence.
BothStaged == mb.r # Nil /\ b.entries > 0 /\ proc = "running"

\* C14: for each command of a sequence staged in an ephemeral batch and in a
\* replicaAppBatch that started from the same view, the two batches take the
\* same decision: both accept it or both reject it, with the same forced
\* error and the same lease-applied index in the view.
C14_EphemeralDecidesAlike ==
    BothStaged =>
        /\ (mb.cmd.ForcedErr = "none") = (cmd.ForcedErr = "none")
        /\ mb.cmd.ForcedErr = cmd.ForcedErr
        /\ mb.cmd.Rejection = cmd.Rejection
        /\ mb.state.LeaseAppliedIndex = b.state.LeaseAppliedIndex

\* The third command of a sequence is rejected in both batches at a lease
\* index the replica would accept: an earlier command of the sequence has
\* moved the view's lease-applied index past it.
C14_Witness ==
    /\ BothStaged
    /\ b.entries = 3
    /\ mb.cmd.ForcedErr = "LeaseAppliedIndex"
    /\ cmd.ForcedErr = "LeaseAppliedIndex"
    /\ cmdIn.MaxLeaseIndex > r.state.LeaseAppliedIndex
    /\ mb.state.LeaseAppliedIndex > r.state.LeaseAppliedIndex

\* C16: the storage batch of a replicaAppBatch is never closed twice; once
\* Close was called, after any calls of Stage and ApplyToStateMachine that
\* succeeded or failed, it is closed exactly once and the batch is zeroed,
\* and further calls of Close change neither.
C16_StorageBatchClosedOnce ==
    /\ closes.batch <= 1
    /\ closes.calls >= 1 => (closes.batch = 1 /\ b = ZeroBatch)
    /\ (b.r # Nil /\ b.batch = Nil) => closes.batch = 1
    /\ (b.r # Nil /\ b.batch # Nil) => closes.batch = 0

\* Close was called twice on a batch that a successful commit had closed.
C16_Witness ==
    /\ closes.calls = 2
    /\ closes.batch = 1
    /\ b = ZeroBatch
    /\ sm.stats.batchesProcessed >= 1
    /\ engine.last.ops # <<>>
    /\ proc = "running"

\* The entries of a cache.
Entries(cache) == { e \in CacheKeys : cache[e] # Nil }
\* The entry of a cache that covers a key, by the cache's own order: the
\* first entry that ends after the key (at it or after, inverted), if its
\* descriptor contains the key.
Covering(cache, key, inverted) ==
    { e \in Entries(cache) :
        /\ Contains(Deref(cache[e]), key, inverted)
        /\ \A o \in Entries(cache) :
              (IF inverted THEN o >= RangeMetaKey(key) ELSE o > RangeMetaKey(key)) => e <= o }
\* The cached descriptor is the one the caller saw.
IsTheOneSeen(cached, seen) ==
    \/ seen.GenerationComparable /\ cached.GenerationComparable
         /\ seen.Generation = cached.Generation
    \/ ~seen.GenerationComparable /\ ~cached.GenerationComparable /\ seen.addr = cached.addr

Overlap(d, e) == d.StartKey < e.EndKey /\ e.StartKey < d.EndKey
\* The cache holds a descriptor of this value.
Cached(cache, d) == \E e \in Entries(cache) : DescEqual(Deref(cache[e]), d)

\* C19, as claimed: after InsertRangeDescriptors, the cache holds every
\* descriptor of the call that, when the call began, was not cached and was
\* not older than an overlapping cached descriptor (its insertion alone
\* would go on) and that overlaps no other descriptor of the call, whether
\* or not another descriptor of the call was skipped.
C19_InsertsEveryNewDescriptor ==
    rdc.call.op = "Insert" =>
        \A i \in DOMAIN rdc.call.rs :
            (/\ clearOverlappingCachedRangeDescriptors(rdc.call.before, rdc.call.rs[i]).continueWithInsert
             /\ \A j \in DOMAIN rdc.call.rs \ {i} : ~Overlap(rdc.call.rs[i], rdc.call.rs[j]))
            => Cached(rdc.cache, rdc.call.rs[i])

\* The goroutines inside the function that the token's Once guards.
InsideOnce == { t \in Evictors : rdc.evictor[t].pc \in {"lock", "do", "replace", "unlock"} }

\* C20: over the calls of Evict and EvictAndReplace on one token, from two
\* goroutines, the eviction runs at most once; the goroutine that runs it
\* holds the write lock from the eviction to the end of the insertion of the
\* new descriptors, and no reader of the cache sees it between the two.
C20_TokenRunsOnceAtomically ==
    /\ rdc.token.runs <= 1
    /\ Cardinality(InsideOnce) <= 1
    /\ \A t \in Evictors :
          rdc.evictor[t].pc \in {"do", "replace", "unlock"} => rdc.writer = Ptr(t)
    /\ ~rdc.read.torn
    /\ rdc.token.once = "done" => rdc.token.runs = 1

\* The token of the range before its split was called three times; its one
\* run has replaced the range by the two halves, which a reader has seen.
C20_Witness ==
    /\ rdc.token.calls = 3
    /\ rdc.token.once = "done"
    /\ rdc.token.runs = 1
    /\ EvictorsIdle
    /\ Cardinality(Entries(rdc.cache)) = 2
    /\ rdc.read.desc # Nil
    /\ Deref(rdc.read.desc).Generation = 2

\* C17: a lookup that returns a descriptor returns one that contains the key
\* looked up (in the inverted sense for a reverse scan), from the cache or
\* from the database, whether the lookup led the flight or joined one.
C17_LookupReturnsCoveringDescriptor ==
    \A t \in Lookupers :
        rdc.lookup[t].pc = "returned" =>
            /\ rdc.lookup[t].desc # Nil
            /\ Contains(Deref(rdc.lookup[t].desc), rdc.lookup[t].key, rdc.lookup[t].useReverseScan)

\* A lookup that had joined a flight and got a descriptor without its key
\* has tried again and returned a descriptor with it.
C17_Witness ==
    \E t \in Lookupers :
        /\ rdc.lookup[t].pc = "returned"
        /\ rdc.lookup[t].retried
        /\ rdc.lookup[t].shared
        /\ rdc.lookup[t].prevDesc # Nil
        /\ rdc.lookup[t].key = 3

\* The batch was committed while its view's closed timestamp was below the
\* replica's.
PublishedRegression ==
    Committed /\ prev.state.RaftClosedTimestamp < prevR.state.RaftClosedTimestamp

\* C21, as claimed: at publication, whenever the replica's existing closed
\* timestamp exceeds the batch's new one, a regression assertion error is
\* returned.
C21_RegressionIsAnError ==
    PublishedRegression => err = "AssertionFailed: raft closed timestamp regression"

\* C21, amended: at publication a regression assertion error is returned
\* only when the batch's non-empty closed timestamp is below the replica's
\* and the assertions are enabled; with the assertions disabled such a batch
\* is published without an error and the replica keeps the closed timestamp
\* it had.
C21_RegressionIsAnErrorWhenAsserted ==
    /\ (ApplyCalled /\ err = "AssertionFailed: raft closed timestamp regression") =>
          /\ raftClosedTimestampAssertionsEnabled
          /\ PublishedRegression
          /\ prev.state.RaftClosedTimestamp # 0
    /\ PublishedRegression =>
          (err = "AssertionFailed: raft closed timestamp regression"
              <=> raftClosedTimestampAssertionsEnabled)
    /\ (PublishedRegression /\ ~raftClosedTimestampAssertionsEnabled) =>
          /\ err = "none"
          /\ r.state.RaftClosedTimestamp = prevR.state.RaftClosedTimestamp

\* With the assertions disabled a batch whose closed timestamp is below the
\* replica's has been published, and the replica has kept its own.
C21_Witness ==
    /\ ~raftClosedTimestampAssertionsEnabled
    /\ PublishedRegression
    /\ prev.state.RaftClosedTimestamp # 0
    /\ err = "none"
    /\ r.state.RaftAppliedIndex = prev.state.RaftAppliedIndex
    /\ r.state.RaftClosedTimestamp = prevR.state.RaftClosedTimestamp

\* The snapshot of the read lacks the version the read needs: it was
\* collected before the snapshot was captured.
ReadsCollected ==
    /\ reader.snapshot # Nil
    /\ reader.ts = OldVersionTS
    /\ Deref(reader.snapshot)["old"] = Nil

\* C22: an accepted command that carries a GC threshold has it published to
\* the replica when Stage returns, the batch not yet committed, and the field
\* of the replicated result cleared; the engine never lacks a version above
\* the published threshold, and a read whose check of the threshold passed
\* holds a snapshot from which nothing at its timestamp was collected.
C22_ThresholdPublishedBeforeCollection ==
    /\ (StageSucceeded /\ Accepted /\ GCThresholdOf(cmdIn) # Nil) =>
          /\ Deref(GCThresholdOf(cmdIn)) # 0 => r.state.GCThreshold = Deref(GCThresholdOf(cmdIn))
          /\ b.batch # Nil
          /\ cmdIn.WriteBatch # Nil =>
                \E i \in 1..Len(Deref(b.batch)) : Deref(b.batch)[i] = Deref(cmdIn.WriteBatch)[1]
          /\ GCThresholdOf(cmd) = Nil
    /\ engine.kv["old"] = Nil => r.state.GCThreshold >= OldVersionTS
    /\ (reader.pc = "validated" /\ reader.valid) => ~ReadsCollected

\* A read captured its snapshot before the collection was committed and
\* checked the threshold after Stage had raised it: the check fails although
\* the snapshot is whole, and the collection is still not committed.
C22_Witness ==
    /\ reader.pc = "validated"
    /\ ~reader.valid
    /\ reader.ts = OldVersionTS
    /\ Deref(reader.snapshot)["old"] # Nil
    /\ StageSucceeded /\ Accepted
    /\ GCThresholdOf(cmdIn) # Nil
    /\ cmdIn.WriteBatch # Nil
    /\ engine.kv["old"] # Nil
    /\ b.batch # Nil

\* The position in fx at which the lock whose Lock and Unlock are so named
\* was taken, if it is held after the first n events; 0 if it is not held.
AcquiredAt(lock, unlock, n) ==
    LET taken == { i \in 1..n : fx[i] = lock /\ \A j \in (i + 1)..n : fx[j] # unlock }
    IN IF taken = {} THEN 0 ELSE CHOOSE i \in taken : \A j \in taken : j <= i

\* The inner lock and the read-only-command mutex of this replica and of the
\* right-hand one.
LockPairs ==
    { [mu |-> "mu.Lock", muUnlock |-> "mu.Unlock",
       ro |-> "readOnlyCmdMu.Lock", roUnlock |-> "readOnlyCmdMu.Unlock"],
      [mu |-> "rhs.mu.Lock", muUnlock |-> "rhs.mu.Unlock",
       ro |-> "rhs.readOnlyCmdMu.Lock", roUnlock |-> "rhs.readOnlyCmdMu.Unlock"] }

UnlockOf(name) == IF name = "mu" THEN "muUnlock" ELSE "roUnlock"

\* Over the events of the call: whenever both locks of a replica are held,
\* the first of the two named was taken before the second.
TakenInOrder(first, second) ==
    \A p \in LockPairs : \A n \in 1..Len(fx) :
        LET one == AcquiredAt(p[first], p[UnlockOf(first)], n)
            two == AcquiredAt(p[second], p[UnlockOf(second)], n)
        IN (one # 0 /\ two # 0) => one < two

\* C23, as claimed: whenever the applicator holds both the inner lock and
\* the read-only-command mutex of a replica, it took the inner lock first.
C23_MuBeforeReadOnlyCmdMu == TakenInOrder("mu", "ro")

\* C23, amended: whenever the applicator holds both the inner lock and the
\* read-only-command mutex of a replica, it took the read-only-command mutex
\* first, in the replica-removal trigger and in the merge trigger alike, and
\* it gives the inner lock back first.
C23_ReadOnlyCmdMuBeforeMu ==
    /\ TakenInOrder("ro", "mu")
    /\ \A p \in LockPairs : \A n \in 1..Len(fx) :
          fx[n] = p.roUnlock => AcquiredAt(p.mu, p.muUnlock, n) = 0

\* Stage of a merge has marked the right-hand replica as destroyed under
\* both of its locks.
C23_Witness ==
    /\ StageSucceeded
    /\ cmdIn.ReplicatedEvalResult.Merge # Nil
    /\ r.rhs.destroyStatus = "destroyReasonRemoved"
    /\ \E n \in 1..Len(fx) :
          /\ fx[n] = "rhs.destroyStatus.Set"
          /\ AcquiredAt("rhs.mu.Lock", "rhs.mu.Unlock", n) # 0
          /\ AcquiredAt("rhs.readOnlyCmdMu.Lock", "rhs.readOnlyCmdMu.Unlock", n) # 0

SplitOrMerge(c) == c.ReplicatedEvalResult.Split # Nil \/ c.ReplicatedEvalResult.Merge # Nil

\* What a trigger does to the right-hand replica, among the events of a call
\* and among the records of a storage batch.
RHSEvents == {"splitPreApply", "rhs.readOnlyCmdMu.Lock", "rhs.mu.Lock", "rhs.destroyStatus.Set"}
TouchesRHS(o) ==
    \/ o.op = "put" /\ o.key \in RHSKeys \cup {"rhs.RangeTombstone"}
    \/ o.op = "clear" /\ o.keys \cap RHSKeys # {}

\* C24: Stage of an accepted split or merge takes the raft mutex of the
\* right-hand replica right after the rejection check, before any trigger
\* touches that replica, and the command keeps the unlock function; the
\* mutex is held as long as what the triggers staged for the right-hand
\* replica is not committed; Stage of a rejected split or merge takes no lock
\* and leaves the right-hand replica alone.
C24_SplitMergeLockHeldToCommit ==
    /\ (StageReturned /\ Accepted /\ SplitOrMerge(cmdIn) /\ err = "none") =>
          /\ cmd.splitMergeUnlock
          /\ r.rhs.raftMuHeld
          /\ fx # <<>> /\ fx[1] = "rhs.raftMu.Lock"
    /\ StageCalled =>
          \A n \in 1..Len(fx) :
              fx[n] \in RHSEvents => \E k \in 1..(n - 1) : fx[k] = "rhs.raftMu.Lock"
    /\ (StageReturned /\ Rejected) =>
          /\ ~cmd.splitMergeUnlock
          /\ \A n \in 1..Len(fx) : fx[n] # "rhs.raftMu.Lock"
          /\ r.rhs = prevR.rhs
          /\ \A n \in 1..Len(Deref(b.batch)) : ~TouchesRHS(Deref(b.batch)[n])
    /\ (b.batch # Nil /\ \E n \in 1..Len(Deref(b.batch)) : TouchesRHS(Deref(b.batch)[n])) =>
          r.rhs.raftMuHeld
    /\ (r.rhs.destroyStatus = "destroyReasonRemoved" /\ engine.kv["rhs.RaftHardState"] # Nil) =>
          r.rhs.raftMuHeld
    /\ (StageCalled /\ ~SplitOrMerge(cmdIn)) => r.rhs = prevR.rhs

\* The batch of an accepted merge is committed, the range-ID-local keys of
\* the right-hand replica are gone from the engine, and its raft mutex is
\* still held.
C24_Witness ==
    /\ Committed
    /\ err = "none"
    /\ r.rhs.raftMuHeld
    /\ r.rhs.destroyStatus = "destroyReasonRemoved"
    /\ engine.kv["rhs.RaftHardState"] = Nil
    /\ engine.kv["rhs.RangeTombstone"] # Nil
    /\ engine.kv["rhs.data"] # Nil

----------------------------------------------------------------------------
(* C25, C26: the truncation of the raft log                                *)

\* The command handed to Stage carries a truncation.
Truncates(c) ==
    c.ReplicatedEvalResult.State # Nil /\ Deref(c.ReplicatedEvalResult.State).TruncatedState # Nil

\* The truncated index the command handed to Stage suggests.
SuggestedIndex(c) == Deref(Deref(c.ReplicatedEvalResult.State).TruncatedState).Index

\* Stage selected the strongly coupled path for the truncation it was handed.
StronglyCoupled ==
    /\ StageReturned /\ Accepted /\ Truncates(cmdIn)
    /\ ~envIn.looselyCoupledTruncation \/ cmdIn.ReplicatedEvalResult.RaftExpectedFirstIndex = 0

\* Stage handed the truncation to the background truncator.
LooselyCoupled ==
    /\ StageReturned /\ Accepted /\ Truncates(cmdIn)
    /\ envIn.looselyCoupledTruncation /\ cmdIn.ReplicatedEvalResult.RaftExpectedFirstIndex # 0

\* The truncation was discarded: the replica is truncated that far already.
Discarded ==
    /\ StronglyCoupled /\ err = "none"
    /\ SuggestedIndex(cmdIn) <= prev.state.TruncatedState

\* The three fields of the truncation are cleared from the replicated result.
TruncationCleared ==
    /\ Deref(cmd.ReplicatedEvalResult.State).TruncatedState = Nil
    /\ cmd.ReplicatedEvalResult.RaftLogDelta = 0
    /\ cmd.ReplicatedEvalResult.RaftExpectedFirstIndex = 0

\* The operations Stage added to the batch.
StagedOps == SubSeq(Deref(b.batch), Len(Deref(prev.batch)) + 1, Len(Deref(b.batch)))

\* The batch writes the truncated state.
WritesTruncatedState(ops) ==
    \E n \in 1..Len(ops) : ops[n].op = "put" /\ ops[n].key = "RaftTruncatedState"

\* C25 as stated: a truncation discarded on the strongly coupled path, however
\* the path was selected, has its fields cleared and marks the replica's raft
\* log size untrusted.
C25_DiscardedMarksUntrusted ==
    Discarded => TruncationCleared /\ ~r.raftLogSizeTrusted

\* C25: a truncation discarded on the strongly coupled path has its three
\* fields cleared and nothing of it in the batch; the raft log size is marked
\* untrusted when loosely coupled truncation is disabled, and is left as it
\* was in the fallback taken when it is enabled and RaftExpectedFirstIndex is
\* absent.
C25_DiscardedMarksUntrustedWhenDisabled ==
    Discarded =>
        /\ TruncationCleared
        /\ StagedOps = <<>>
        /\ r.pendingTruncations = prevR.pendingTruncations
        /\ IF envIn.looselyCoupledTruncation
           THEN r.raftLogSizeTrusted = prevR.raftLogSizeTrusted
           ELSE ~r.raftLogSizeTrusted

\* A truncation without RaftExpectedFirstIndex is discarded while loosely
\* coupled truncation is enabled, and the log size is still trusted.
C25_Witness ==
    /\ Discarded
    /\ envIn.looselyCoupledTruncation
    /\ cmdIn.ReplicatedEvalResult.RaftExpectedFirstIndex = 0
    /\ TruncationCleared
    /\ r.raftLogSizeTrusted

\* How many times Stage did what.
Times(what) == Cardinality({ n \in 1..Len(fx) : fx[n] = what })

\* What the truncator is handed of the command.
PendingOf(c) ==
    [ TruncatedState         |-> [Index |-> SuggestedIndex(c)],
      RaftExpectedFirstIndex |-> c.ReplicatedEvalResult.RaftExpectedFirstIndex,
      RaftLogDelta           |-> c.ReplicatedEvalResult.RaftLogDelta ]

\* C26 as stated: the truncation of an accepted command is written into the
\* batch iff loosely coupled truncation is disabled or RaftExpectedFirstIndex
\* is 0.
C26_WrittenIffStronglyCoupled ==
    (StageReturned /\ Accepted /\ Truncates(cmdIn) /\ err = "none") =>
        (WritesTruncatedState(StagedOps) <=> StronglyCoupled)

\* C26: the regime is chosen from the setting and RaftExpectedFirstIndex
\* alone.  With the setting disabled or the index 0 the truncation is handled
\* in the current batch, never by the truncator, and is written into the
\* batch iff it reaches past the replica's truncated index; otherwise it is
\* handed to the truncator exactly once, nothing of it is written to the
\* batch and its fields are cleared.  A rejected command truncates nothing.
C26_RegimeFromSettingAndFirstIndex ==
    /\ StronglyCoupled =>
          /\ Times("addPendingTruncation") = 0
          /\ r.pendingTruncations = prevR.pendingTruncations
          /\ err = "none" =>
                /\ Times("handleTruncatedStateBelowRaftPreApply") = 1
                /\ WritesTruncatedState(StagedOps) <=>
                      SuggestedIndex(cmdIn) > prev.state.TruncatedState
                /\ WritesTruncatedState(StagedOps) =>
                      /\ StagedOps = << Clear({"RaftLog"}),
                                        Put("RaftTruncatedState", << SuggestedIndex(cmdIn) >>) >>
                      /\ cmd.ReplicatedEvalResult = cmdIn.ReplicatedEvalResult
          /\ err # "none" => err = "unable to handle truncated state" /\ StagedOps = <<>>
    /\ LooselyCoupled =>
          /\ err = "none"
          /\ Times("addPendingTruncation") = 1
          /\ Times("handleTruncatedStateBelowRaftPreApply") = 0
          /\ r.pendingTruncations = Append(prevR.pendingTruncations, PendingOf(cmdIn))
          /\ StagedOps = <<>>
          /\ TruncationCleared
          /\ r.raftLogSizeTrusted = prevR.raftLogSizeTrusted
    /\ (StageReturned /\ (Rejected \/ ~Truncates(cmdIn))) =>
          /\ Times("addPendingTruncation") = 0
          /\ Times("handleTruncatedStateBelowRaftPreApply") = 0
          /\ r.pendingTruncations = prevR.pendingTruncations
          /\ ~WritesTruncatedState(StagedOps)

\* A truncation past the replica's truncated index that carries
\* RaftExpectedFirstIndex is handed to the truncator while loosely coupled
\* truncation is enabled: the batch has nothing of it, the field is cleared.
C26_Witness ==
    /\ LooselyCoupled
    /\ SuggestedIndex(cmdIn) > prev.state.TruncatedState
    /\ r.pendingTruncations = << PendingOf(cmdIn) >>
    /\ StagedOps = <<>>
    /\ TruncationCleared

----------------------------------------------------------------------------
(* C27: the logical-op log and the rangefeed                               *)

\* The command carries its stats delta in both representations, which ends
\* the process before the triggers run.
BothDeltas(c) ==
    c.ReplicatedEvalResult.DeprecatedDelta # Nil /\ c.ReplicatedEvalResult.Delta # ZeroStats

\* C27: a command that Stage takes through its triggers hands its logical-op
\* log to the rangefeed, once, exactly when its write batch is non-nil, a nil
\* log included; an accepted command with a log and no write batch ends the
\* process, and among the well-formed commands only such a one does; a
\* command with neither hands over nothing; a rejected command has both
\* fields cleared, hands over nothing and never ends the process.
C27_LogicalOpsFollowWriteBatch ==
    /\ (StageChecked /\ err = "none" /\ proc # "dead") =>
          /\ Times("handleLogicalOpLog") = IF cmd.WriteBatch # Nil THEN 1 ELSE 0
          /\ cmd.WriteBatch = Nil => cmd.LogicalOpLog = Nil
    /\ (Accepted /\ err = "none" /\ cmdIn.WriteBatch = Nil /\ cmdIn.LogicalOpLog # Nil) =>
          proc = "dead" /\ Times("handleLogicalOpLog") = 0
    /\ (StageChecked /\ proc = "dead" /\ ~BothDeltas(cmd)) =>
          Accepted /\ cmdIn.WriteBatch = Nil /\ cmdIn.LogicalOpLog # Nil
    /\ Rejected =>
          /\ proc # "dead"
          /\ cmd.WriteBatch = Nil /\ cmd.LogicalOpLog = Nil
          /\ Times("handleLogicalOpLog") = 0

\* After an accepted command with a write batch and no logical-op log was
\* handed to the rangefeed, a command with a log and no write batch is
\* rejected in the same batch: Stage returns, the process goes on.
C27_Witness ==
    /\ StageSucceeded /\ Rejected
    /\ cmdIn.WriteBatch = Nil /\ cmdIn.LogicalOpLog # Nil
    /\ prev.entries > 0
    /\ Times("handleLogicalOpLog") = 0

----------------------------------------------------------------------------
(* C28: the ingestion of an SSTable                                        *)

\* The command handed to Stage carries an SSTable.
AddsSSTable(c) == c.ReplicatedEvalResult.AddSSTable # Nil

\* The SSTable of the entry at this index is in the engine.
Ingested(idx) == engine.kv["sst"] = Ptr(<< idx >>)

\* C28: when Stage returns from an accepted command with an SSTable, the
\* SSTable has been ingested once and is in the engine, while the batch is
\* not committed (the engine's applied index is below the command's) and
\* holds nothing of the SSTable; the rangefeed was told of it, once, iff it
\* is at the write timestamp; the AddSSTable field is nil.  A rejected
\* command ingests nothing, and the commit neither ingests nor tells again.
C28_SSTableIngestedOnceBeforeCommit ==
    /\ (StageReturned /\ Accepted /\ AddsSSTable(cmdIn) /\ err = "none") =>
          /\ Times("addSSTablePreApply") = 1
          /\ Ingested(cmdIn.Index)
          /\ b.batch # Nil
          /\ Deref(engine.kv["RangeAppliedState"])[1] < cmdIn.Index
          /\ \A n \in 1..Len(Deref(b.batch)) : Deref(b.batch)[n].key # "sst"
          /\ Times("handleSSTableRaftMuLocked") =
                IF Deref(cmdIn.ReplicatedEvalResult.AddSSTable).AtWriteTimestamp THEN 1 ELSE 0
          /\ cmd.ReplicatedEvalResult.AddSSTable = Nil
    /\ (StageReturned /\ (Rejected \/ ~AddsSSTable(cmdIn))) =>
          /\ Times("addSSTablePreApply") = 0
          /\ Times("handleSSTableRaftMuLocked") = 0
          /\ cmd.ReplicatedEvalResult.AddSSTable = Nil
    /\ ApplyCalled =>
          /\ Times("addSSTablePreApply") = 0
          /\ Times("handleSSTableRaftMuLocked") = 0
          /\ \A n \in 1..Len(engine.last.ops) : engine.last.ops[n].key # "sst"

\* An SSTable at the write timestamp has been ingested and the rangefeed told,
\* and the batch of its command is still to be committed.
C28_Witness ==
    /\ StageSucceeded /\ Accepted /\ AddsSSTable(cmdIn)
    /\ Deref(cmdIn.ReplicatedEvalResult.AddSSTable).AtWriteTimestamp
    /\ Ingested(cmdIn.Index)
    /\ Times("handleSSTableRaftMuLocked") = 1
    /\ b.batch # Nil
    /\ Deref(engine.kv["RangeAppliedState"])[1] < cmdIn.Index

----------------------------------------------------------------------------
(* C29: the lease-applied index of the view                                *)

\* C29: after each successful Stage of a sequence the view's lease-applied
\* index is the command's when that is non-zero and the one before the call
\* otherwise; it has not decreased; a rejected command has left it as it was
\* and an accepted one has made it the command's MaxLeaseIndex.
C29_LeaseAppliedIndexFollowsAccepted ==
    BothStaged =>
        /\ b.state.LeaseAppliedIndex =
              IF cmd.LeaseIndex # 0 THEN cmd.LeaseIndex ELSE prev.state.LeaseAppliedIndex
        /\ b.state.LeaseAppliedIndex >= prev.state.LeaseAppliedIndex
        /\ b.state.LeaseAppliedIndex >= r.state.LeaseAppliedIndex
        /\ cmd.ForcedErr # "none" => b.state.LeaseAppliedIndex = prev.state.LeaseAppliedIndex
        /\ cmd.ForcedErr = "none" =>
              /\ b.state.LeaseAppliedIndex = cmdIn.MaxLeaseIndex
              /\ b.state.LeaseAppliedIndex > prev.state.LeaseAppliedIndex

\* A command at the view's own lease-applied index was rejected and left the
\* view alone; the next one, one past it, is accepted and the view's index is
\* its MaxLeaseIndex.
C29_Witness ==
    /\ BothStaged
    /\ b.entries = 2
    /\ prev.entries = 1
    /\ prev.state.LeaseAppliedIndex = r.state.LeaseAppliedIndex
    /\ r.state.LeaseAppliedIndex > 0
    /\ cmd.ForcedErr = "none"
    /\ cmdIn.MaxLeaseIndex = prev.state.LeaseAppliedIndex + 1
    /\ b.state.LeaseAppliedIndex = cmdIn.MaxLeaseIndex

----------------------------------------------------------------------------
(* C30: the trivial-state update applied twice                             *)

\* The trivial-state update has been applied a second time: prev is the view
\* after the first application, b the view after the second.
AppliedTwice == call = "stageTrivialReplicatedEvalResult"

\* C30 as stated: the second application leaves the view as the first one
\* left it, applied index, term, lease-applied index, closed timestamp and
\* stats.
C30_TrivialUpdateIdempotent ==
    AppliedTwice =>
        /\ b.state.RaftAppliedIndex = prev.state.RaftAppliedIndex
        /\ b.state.RaftAppliedIndexTerm = prev.state.RaftAppliedIndexTerm
        /\ b.state.LeaseAppliedIndex = prev.state.LeaseAppliedIndex
        /\ b.state.RaftClosedTimestamp = prev.state.RaftClosedTimestamp
        /\ b.state.Stats = prev.state.Stats

\* C30: the second application leaves the applied index, the term, the
\* lease-applied index, the closed timestamp and its setter as the first one
\* left them, and adds the command's stats delta once more: the stats are the
\* same iff the delta is zero.
C30_TrivialUpdateIdempotentButStats ==
    AppliedTwice =>
        /\ b.state.RaftAppliedIndex = prev.state.RaftAppliedIndex
        /\ b.state.RaftAppliedIndexTerm = prev.state.RaftAppliedIndexTerm
        /\ b.state.LeaseAppliedIndex = prev.state.LeaseAppliedIndex
        /\ b.state.RaftClosedTimestamp = prev.state.RaftClosedTimestamp
        /\ b.closedTimestampSetter = prev.closedTimestampSetter
        /\ b.state.Stats = MVCCStatsAdd(prev.state.Stats, ToStats(cmd.ReplicatedEvalResult.Delta))
        /\ (b.state.Stats = prev.state.Stats) <=> (cmd.ReplicatedEvalResult.Delta = ZeroStats)
        /\ [b EXCEPT !.state.Stats = prev.state.Stats] = prev

\* The update was applied twice for an accepted command with a closed
\* timestamp and a non-zero stats delta: the view's stats hold the delta
\* twice.
C30_Witness ==
    /\ AppliedTwice
    /\ cmd.ForcedErr = "none"
    /\ cmd.ReplicatedEvalResult.Delta # ZeroStats
    /\ b.state.Stats # prev.state.Stats
    /\ b.state.LeaseAppliedIndex = cmdIn.MaxLeaseIndex
    /\ b.state.RaftAppliedIndex = cmdIn.Index

----------------------------------------------------------------------------
(* C31: what ApplyToStateMachine publishes                                 *)

\* ApplyToStateMachine has returned without an error; prev is the batch it
\* was called on, prevR the replica before the call.
ApplySucceeded == call = "ApplyToStateMachine" /\ err = "none"

\* C31: after a successful ApplyToStateMachine the replica's applied index,
\* term, lease-applied index and stats are the view's, its closed timestamp
\* is the greater of the one it had and the view's, and the update handler
\* was called, once, iff the replica's closed timestamp advanced.
C31_ViewPublishedOnCommit ==
    ApplySucceeded =>
        /\ r.state.RaftAppliedIndex = prev.state.RaftAppliedIndex
        /\ r.state.RaftAppliedIndexTerm = prev.state.RaftAppliedIndexTerm
        /\ r.state.LeaseAppliedIndex = prev.state.LeaseAppliedIndex
        /\ r.state.Stats = prev.state.Stats
        /\ r.state.RaftClosedTimestamp =
              IF prevR.state.RaftClosedTimestamp < prev.state.RaftClosedTimestamp
              THEN prev.state.RaftClosedTimestamp ELSE prevR.state.RaftClosedTimestamp
        /\ Times("handleClosedTimestampUpdate") =
              IF r.state.RaftClosedTimestamp > prevR.state.RaftClosedTimestamp THEN 1 ELSE 0

\* A batch whose view carries the closed timestamp the replica already has is
\* committed: the indexes and the stats move, the closed timestamp stays and
\* the handler is not called.
C31_Witness ==
    /\ ApplySucceeded
    /\ prev.state.RaftClosedTimestamp = prevR.state.RaftClosedTimestamp
    /\ prevR.state.RaftClosedTimestamp > 0
    /\ r.state.RaftClosedTimestamp = prevR.state.RaftClosedTimestamp
    /\ r.state.RaftAppliedIndex > prevR.state.RaftAppliedIndex
    /\ r.state.Stats # prevR.state.Stats
    /\ Times("handleClosedTimestampUpdate") = 0

----------------------------------------------------------------------------
(* C32: the ephemeral batch                                                *)

\* ephemeralReplicaAppBatch.Stage has returned; prev.state is the view the
\* call found, prevR the replica before it.
EphemeralStaged == call = "ephemeralStage"

\* C32: Stage of an ephemeral batch returns no error for any command, also
\* one whose raft index is not the next one; it leaves the replica, the
\* engine and the real batch alone and has no other effect; of its view only
\* the lease-applied index changes, to the index the rejection predicate put
\* on the command.
C32_EphemeralStageOnlyMovesLeaseIndex ==
    EphemeralStaged =>
        /\ err = "none" /\ proc = "running"
        /\ r = prevR
        /\ engine.last = NoCommit /\ engine.kv = InitialKV(r.state)
        /\ b = ZeroBatch
        /\ fx = <<>>
        /\ cmd = shouldApplyCommand(cmdIn, prev.state)
        /\ mb.state = [prev.state EXCEPT !.LeaseAppliedIndex = cmd.LeaseIndex]
        /\ mb.state.RaftAppliedIndex = r.state.RaftAppliedIndex

\* A command whose raft index is not the next one, and which the predicate
\* accepts, is staged in an ephemeral batch that has accepted one before:
\* no error, the view's lease-applied index moves again, the applied index
\* does not.
C32_Witness ==
    /\ EphemeralStaged
    /\ cmdIn.Index # prev.state.RaftAppliedIndex + 1
    /\ cmd.ForcedErr = "none"
    /\ prev.state.LeaseAppliedIndex > r.state.LeaseAppliedIndex
    /\ mb.state.LeaseAppliedIndex = prev.state.LeaseAppliedIndex + 1
    /\ mb.state.RaftAppliedIndex = r.state.RaftAppliedIndex

----------------------------------------------------------------------------
(* C33: lookups for one request key share one database lookup              *)

\* The request key of the lookup a goroutine is in.
RequestKeyOf(t) ==
    makeLookupRequestKey(rdc.lookup[t].key, rdc.lookup[t].prevDesc, rdc.lookup[t].useReverseScan)

\* The goroutines that wait for the flight l.
WaitingFor(l) ==
    { t \in Lookupers : rdc.lookup[t].pc = "wait" /\ rdc.lookup[t].leader = Ptr(l) }

\* No two flights are for the same request key; a lookup that missed the
\* cache waits for the one flight of its request key, which is there until
\* it has answered; a flight has somebody waiting for it.
OneFlightPerRequestKey ==
    /\ \A l1, l2 \in Lookupers :
          (l1 # l2 /\ rdc.flight[l1] # Nil /\ rdc.flight[l2] # Nil) =>
              Deref(rdc.flight[l1]).requestKey # Deref(rdc.flight[l2]).requestKey
    /\ \A t \in Lookupers :
          rdc.lookup[t].pc = "wait" =>
              /\ rdc.lookup[t].leader # Nil
              /\ rdc.flight[Deref(rdc.lookup[t].leader)] # Nil
              /\ Deref(rdc.flight[Deref(rdc.lookup[t].leader)]).requestKey = RequestKeyOf(t)
    /\ \A l \in Lookupers : rdc.flight[l] # Nil => l \in WaitingFor(l)

\* A flight asks the database once: the answer it has got stays the answer
\* until the flight is over.
OneQueryPerFlight ==
    \A l \in Lookupers :
        (rdc.flight[l] # Nil /\ Deref(rdc.flight[l]).looked # Nil) =>
            (rdc.flight[l]' = Nil \/ rdc.flight[l]' = rdc.flight[l])

\* A lookup starts a flight only on a cache miss and with none in flight for
\* its request key; it joins one only on a cache miss.
FlightOnlyOnMiss ==
    \A t \in Lookupers :
        (rdc.lookup[t].pc = "try" /\ rdc.lookup[t]'.pc = "wait") =>
            /\ getCachedRangeDescriptorLocked(rdc.cache, rdc.lookup[t].key,
                                              rdc.lookup[t].useReverseScan) = Nil
            /\ rdc.flight[t]' # rdc.flight[t] <=> inFlightFor(rdc.flight, RequestKeyOf(t)) = {}
            /\ rdc.lookup[t]'.leader # Nil
            /\ Deref(rdc.lookup[t]'.leader) # t <=> inFlightFor(rdc.flight, RequestKeyOf(t)) # {}

\* C33: lookups that miss the cache and have the same request key share one
\* flight, which asks the database once: a lookup that misses joins the
\* flight of its request key if there is one and starts one only if there is
\* none, and a lookup that finds its key in the cache starts none.
C33_OneLookupPerRequestKey ==
    /\ []OneFlightPerRequestKey
    /\ [][OneQueryPerFlight /\ FlightOnlyOnMiss]_vars

\* Two lookups with the same request key wait for one flight, which has asked
\* the database.
C33_Witness ==
    /\ WaitingFor("l1") = Lookupers
    /\ rdc.lookup["l2"].shared
    /\ RequestKeyOf("l1") = RequestKeyOf("l2")
    /\ rdc.flight["l2"] = Nil
    /\ Deref(rdc.flight["l1"]).looked # Nil

----------------------------------------------------------------------------
(* C34: an older descriptor does not replace a newer one                   *)

\* The cache of a call of InsertRangeDescriptors when the loop comes to its
\* i-th descriptor, and whether the loop comes that far.
CacheAt(cache, rs, i) == insertRangeDescriptorsLocked(cache, SubSeq(rs, 1, i - 1))
LoopReaches(cache, rs, i) ==
    \A j \in 1 .. i - 1 :
        clearOverlappingCachedRangeDescriptors(CacheAt(cache, rs, j), rs[j]).continueWithInsert

\* The entries of a cache that overlap the descriptor and whose generation
\* can be compared with its generation and is not below it.
NotOlder(cache, desc) ==
    { e \in Entries(cache) :
        /\ Overlap(Deref(cache[e]), desc)
        /\ desc.GenerationComparable /\ Deref(cache[e]).GenerationComparable
        /\ desc.Generation <= Deref(cache[e]).Generation }

\* C34: when InsertRangeDescriptors comes to a descriptor that overlaps a
\* cached descriptor of a comparable generation that is not below its own,
\* the call ends with a cache that holds every such descriptor as before and
\* has no entry that the cache did not have then: the descriptor is not
\* inserted and what is not older than it is not evicted.
C34_OlderNeverReplacesNewer ==
    rdc.call.op = "Insert" =>
        \A i \in DOMAIN rdc.call.rs :
            LET at == CacheAt(rdc.call.before, rdc.call.rs, i) IN
            (LoopReaches(rdc.call.before, rdc.call.rs, i) /\ NotOlder(at, rdc.call.rs[i]) # {}) =>
                /\ \A e \in NotOlder(at, rdc.call.rs[i]) : rdc.cache[e] = at[e]
                /\ \A e \in CacheKeys : rdc.cache[e] \in {Nil, at[e]}

\* The range before the split is inserted into a cache that holds the left
\* half after the split and a legacy descriptor of the right half: the left
\* half stays, the legacy descriptor goes, nothing is inserted.
C34_Witness ==
    /\ rdc.call.op = "Insert"
    /\ Len(rdc.call.rs) = 1
    /\ rdc.call.rs[1].GenerationComparable
    /\ NotOlder(rdc.call.before, rdc.call.rs[1]) # {}
    /\ Cardinality(Entries(rdc.call.before)) = 2
    /\ Cardinality(Entries(rdc.cache)) = 1
    /\ \A e \in Entries(rdc.cache) :
          rdc.cache[e] = rdc.call.before[e] /\ Deref(rdc.cache[e]).Generation > rdc.call.rs[1].Generation

----------------------------------------------------------------------------
(* C35: an assertion error of Stage leaves the batch as it was             *)

\* The assertion errors of Stage.
StageAssertionErrors ==
    { "AssertionFailed: non-zero index",
      "AssertionFailed: applied index jumped",
      "AssertionFailed: raft closed timestamp regression in cmd",
      "AssertionFailed: command writing below closed timestamp" }

StageAsserted == call = "Stage" /\ err \in StageAssertionErrors

\* C35: when Stage returns one of its assertion errors, the batch is the
\* batch before the call (view, storage batch, changeRemovesReplica and
\* counters), the replica is as before, with no lock of a right-hand side
\* taken and no unlock function on the command, and nothing ran but the
\* print of the raft log's tail that the regression check makes.
C35_AssertionLeavesBatchAlone ==
    StageAsserted =>
        /\ b = prev
        /\ r = prevR
        /\ ~cmd.splitMergeUnlock
        /\ \A n \in 1 .. Len(fx) : fx[n] = "printRaftTail"
        /\ proc = "failed"

\* A merge that comes after a command that closed a later timestamp fails
\* the regression check of the closed timestamp; the right-hand side is not
\* locked and the batch is the fresh batch it was.
C35_Witness ==
    /\ call = "Stage"
    /\ err = "AssertionFailed: raft closed timestamp regression in cmd"
    /\ cmdIn.ReplicatedEvalResult.Merge # Nil
    /\ Deref(cmdIn.ClosedTimestamp) < b.state.RaftClosedTimestamp
    /\ b.entries = 0
    /\ b.batch = Ptr(<<>>)
    /\ ~r.rhs.raftMuHeld

----------------------------------------------------------------------------
(* C36: ApplyToStateMachine returns with r.mu released                     *)

ApplyReturned == call = "ApplyToStateMachine"

----------------------------------------------------------------------------
(* C37: a failed ApplyToStateMachine publishes nothing                     *)

ApplyFailed == call = "ApplyToStateMachine" /\ err # "none"

----------------------------------------------------------------------------
(* C38: the replica's closed timestamp and the applied-state key's         *)

\* The closed timestamp in the applied-state key of the engine.
KeyClosedTimestamp == Deref(engine.kv["RangeAppliedState"])[6]

AppliedAndStays == ApplySucceeded /\ ~prev.changeRemovesReplica

\* C38, as claimed: after a successful ApplyToStateMachine of a batch that
\* does not remove the replica, the replica's closed timestamp is the one in
\* the applied-state key that the batch committed, with the assertions
\* enabled or disabled.
C38_ClosedTimestampIsTheKeys ==
    AppliedAndStays => r.state.RaftClosedTimestamp = KeyClosedTimestamp

\* C38, corrected: the key holds the closed timestamp of the batch's view and
\* the replica holds the later of that and the one it had; the two are equal
\* when the assertions are enabled.
C38_ClosedTimestampIsTheKeysWhenAsserted ==
    AppliedAndStays =>
        /\ KeyClosedTimestamp = prev.state.RaftClosedTimestamp
        /\ r.state.RaftClosedTimestamp =
              Forward(prevR.state.RaftClosedTimestamp, KeyClosedTimestamp)
        /\ raftClosedTimestampAssertionsEnabled => r.state.RaftClosedTimestamp = KeyClosedTimestamp

\* With the assertions disabled a batch whose view had gone back to an
\* earlier closed timestamp is committed: the key holds the earlier one, the
\* replica the later one.
C38_Witness ==
    /\ AppliedAndStays
    /\ ~raftClosedTimestampAssertionsEnabled
    /\ KeyClosedTimestamp = 1
    /\ r.state.RaftClosedTimestamp = 2

----------------------------------------------------------------------------
(* C39: the cached descriptors do not overlap                              *)

\* No two entries of the cache overlap, and an entry is cached under the
\* meta key of its end key.
NoOverlap(cache) ==
    /\ \A e1, e2 \in Entries(cache) :
          e1 # e2 => ~Overlap(Deref(cache[e1]), Deref(cache[e2]))
    /\ \A e \in Entries(cache) : e = RangeMetaKey(Deref(cache[e]).EndKey)

\* C39: in every state no two cached descriptors overlap, so that at most
\* one of them contains a key, in either direction.
C39_CachedDescriptorsDisjoint ==
    /\ NoOverlap(rdc.cache)
    /\ \A k \in RKeys, inverted \in BOOLEAN :
          Cardinality({ e \in Entries(rdc.cache) : Contains(Deref(rdc.cache[e]), k, inverted) }) <= 1

\* One call has inserted the two halves over the cached unsplit range: the
\* range is gone and the halves are cached side by side.
C39_Witness ==
    /\ rdc.call.op = "Insert"
    /\ Len(rdc.call.rs) = 2
    /\ Cardinality(Entries(rdc.call.before)) = 1
    /\ \A e \in Entries(rdc.call.before) :
          /\ rdc.cache[e] # rdc.call.before[e]
          /\ \A i \in 1 .. 2 : Overlap(Deref(rdc.call.before[e]), rdc.call.rs[i])
    /\ Cardinality(Entries(rdc.cache)) = 2

----------------------------------------------------------------------------
(* C40: every lookup returns                                               *)

\* A lookup is under way: called and not yet returned.
LookupUnderWay(t) == rdc.lookup[t].pc \in {"try", "wait", "check"}

\* A caller whose context is done gets an error, and its step touches
\* neither the flights nor the other lookups nor the cache.
CancelLeavesFlight ==
    \A t \in Lookupers :
        (rdc.lookup[t].pc = "wait" /\ rdc.lookup[t]'.pc = "failed") =>
            /\ rdc.lookup[t]'.err
            /\ rdc.flight' = rdc.flight
            /\ rdc.cache' = rdc.cache
            /\ \A o \in Lookupers \ {t} : rdc.lookup[o]' = rdc.lookup[o]

\* C40: with fair scheduling and a database that answers every lookup with a
\* descriptor that contains the key asked for, no lookup stays under way for
\* ever: time and again each goroutine is out of its lookup, having returned
\* a descriptor or an error after whatever retries; no flight stays in
\* flight for ever, also when the callers that waited for it have gone; and
\* a caller whose context is cancelled returns an error while the flight and
\* the others that wait for it go on.
C40_EveryLookupReturns ==
    /\ \A t \in Lookupers : []<>(~LookupUnderWay(t))
    /\ \A l \in Lookupers : []<>(rdc.flight[l] = Nil)
    /\ [][CancelLeavesFlight]_vars

\* The leader of a flight has returned on a cancelled context; its flight is
\* still there and the other goroutine, which joined it, waits for it.
C40_Witness ==
    /\ rdc.lookup["l1"].pc = "failed"
    /\ rdc.lookup["l1"].err
    /\ rdc.flight["l1"] # Nil
    /\ rdc.lookup["l2"].pc = "wait"
    /\ rdc.lookup["l2"].leader = Ptr("l1")
    /\ rdc.lookup["l2"].shared

====
